---- MODULE Spec2Model ----
(***************************************************************************)
(* A model of the knodle trainer framework: the TrainerConfig constructor  *)
(* and the trainer constructors (knodle/trainer/config.py, trainer.py,     *)
(* ds_model_trainer.py, baseline.py), and BaseTrainer's training loop,     *)
(* prediction loop, checkpoint load and cross-validation (trainer.py),     *)
(* the KNNConfig constructor (knn_denoising/config.py), the pairing of     *)
(* features and labels (transformation/torch_input.py), the baseline       *)
(* trainer SimpleDsModelTrainer (baseline/baseline.py), and the            *)
(* statements of a training batch with Trainer.initialise_optimizer        *)
(* and BaseTrainer._load_train_params (trainer.py), the example sweep      *)
(* train_cleanlab_bert                                                     *)
(* (examples/trainer/cleanlab/cleanlab_training_bert.py), and the report   *)
(* parsing, label derivation, rule matrices, fine-tuning split and         *)
(* train_model of the example preprocessing pipeline                       *)
(* (examples/data_preprocessing/mimic_dataset/prepare_mimic_cxr.py).       *)
(***************************************************************************)
EXTENDS Integers, Sequences, FiniteSets, TLC

(***************************************************************************)
(* Python's optional values: None is the empty tuple, a supplied value v   *)
(* is the one-element tuple <<v>>.  A supplied empty tensor << <<>> >> is  *)
(* so different from None.                                                 *)
(***************************************************************************)
None == <<>>

Some(v) == <<v>>

Val(o) == o[1]

(***************************************************************************)
(* Bounds of the model.                                                    *)
(***************************************************************************)
\* epochs arguments of TrainerConfig are drawn from -1 .. MaxCfgEpochs
MaxCfgEpochs == 2
\* output_classes arguments are drawn from 1 .. MaxClasses
MaxClasses == 2
\* class_weights tensors have 0 .. MaxCWLen entries
MaxCWLen == 2
\* trainer_config.epochs of a trainer is drawn from 1 .. MaxEpochs
MaxEpochs == 3
\* a training dataloader yields 0 .. MaxBatches batches
MaxBatches == 2
\* dev losses are abstracted to the values 0 .. MaxLoss
MaxLoss == 1
\* _validate_with_cv is called with 0 .. MaxFolds folds
MaxFolds == 2
\* the patience of the early-stopping monitor
Patience == 0
\* model objects alive at a time (identities 0 .. MaxObjs - 1)
MaxObjs == 3
\* the methods a caller invokes on the trainer, one after the other
MaxCalls == 1
\* k arguments of KNNConfig are drawn from None and 0 .. MaxK
MaxK == 2
\* radius arguments of KNNConfig are drawn from None and 0 .. MaxRadius
MaxRadius == 2
\* a feature dataset has 1 .. MaxTensors tensors
MaxTensors == 2
\* tensors and label arrays have 0 .. MaxRows rows
MaxRows == 2
\* the epochs argument of SimpleDsModelTrainer.train is drawn from
\* -1 .. MaxTrainEpochs
MaxTrainEpochs == 2
\* the dataloader of the statement-level loop yields 0 .. MaxLoopBatches
\* batches: from none, over those whose progress interval rounds to 0, to
\* one that has a progress interval
MaxLoopBatches == 6
\* trainer_config.epochs of the statement-level loop is 1 .. MaxLoopEpochs
MaxLoopEpochs == 2
\* a class of the preprocessing pipeline has 0 .. MaxPhrases phrases
MaxPhrases == 2
\* the pipeline's rule matching sees 0 .. MaxReports report texts
MaxReports == 1
\* a report text for rule matching has 0 .. MaxTextLen characters
MaxTextLen == 2
\* a raw report is made of 0 .. MaxPieces pieces (a marker or a character)
MaxPieces == 4
\* a trainer gets 0 .. MaxParamCalls calls of _load_train_params
MaxParamCalls == 2
\* a study of the weak-label export has 0 .. MaxFlagged label columns flagged
MaxFlagged == 2
\* the pipeline's input_list has 1 .. MaxN instances
MaxN == 8
\* train_model is called with num_epochs in 0 .. MaxTuneEpochs
MaxTuneEpochs == 3
\* the fine-tuned model's weights are 0 .. MaxTuneW
MaxTuneW == 2
\* a validation accuracy is 0 .. MaxAcc (correct predictions, the same
\* dataset size for every epoch)
MaxAcc == 2

VARIABLES
    \* ---- construction of configurations and trainers ----
    args,       \* the keyword arguments of the TrainerConfig(...) call
    accel,      \* whether an accelerator device is available
    cpc,        \* position of the constructing program
    call,       \* the constructor called last
    result,     \* the configuration object the last TrainerConfig call gave
    error,      \* the exception the last constructor call raised, or "none"
    seed,       \* the seed of the random number generators, None if never set
    dirs,       \* the directories created so far
    trainer,    \* the trainer object the last trainer constructor gave
    \* ---- a BaseTrainer and its environment ----
    cfg,        \* self.trainer_config: the fields the loops read
    dev,        \* self.dev_model_input_x: None, or whether it has batches
    model,      \* self.model: the identity of the model object
    trained_model, \* _validate_with_cv's local copy of the model, or None
    heap,       \* the model objects: weights and training/evaluation mode
    files,      \* the checkpoint files on disk: path -> saved weights
    es,         \* _train_loop's early-stopping monitor, None if not created
    pc,         \* position of the trainer's caller and loops
    calls,      \* the methods the caller has invoked on the trainer
    caller,     \* who called _train_loop: "top" or "cv"
    loader,     \* len(feature_label_dataloader) of the running _train_loop
    epoch,      \* current_epoch
    steps,      \* steps: the batches of the current epoch processed
    train_losses, \* len(train_losses): the epochs trained to their end
    folds,      \* the number of folds of the running _validate_with_cv
    fold,       \* the folds completed
    \* ---- history of the running or last call, for the properties ----
    op,         \* the method called on the trainer
    outcome,    \* "running", "returned" or "raised"
    entryW,     \* the weights of self.model when the method was called
    batchLog,   \* the training batches given an optimizer step, in order
    stopped,    \* whether the epoch loop was left by the early-stop break
    ckptW,      \* the weights the monitor checkpointed last in this loop
    trainedW,   \* the weights the loop's last optimizer step left
    loadArgs,   \* the arguments of the last load_model call
    loadPath,   \* the path the last load_model call read
    \* ---- construction of a KNNConfig ----
    kargs,      \* the keyword arguments of the KNNConfig(...) call
    kcfg,       \* the configuration object the call gave, or None
    kerror,     \* the exception the call raised, or "none"
    kpc,        \* "start" before the call, "done" after it
    \* ---- pairing of features and labels (torch_input.py) ----
    ptensors,   \* model_input_x.tensors: the feature tensors
    plabels,    \* labels: the numpy array of labels
    pds,        \* the TensorDataset returned, or None
    perror,     \* the exception raised, or "none"
    pbatch,     \* what _load_batch gave for the batch read last, or None
    ppc,        \* "start", "paired" or "raised"
    \* ---- a SimpleDsModelTrainer (baseline.py) ----
    bmodel,     \* self.model: weights and training/evaluation mode
    bcfg,       \* self.trainer_config
    bargs,      \* the arguments of the method called
    bop,        \* the method called: "train" or "denoise_rule_matches"
    bpc,        \* "start", "epochs", "returned" or "raised"
    berror,     \* the exception raised, or None
    blabels,    \* train's labels, None before they are derived
    bepoch,     \* train's current_epoch
    blog,       \* what train did to the model so far, in order
    bret,       \* the value returned, or None
    bentry,     \* self.model and self.trainer_config at the call
    \* ---- the statements of _train_loop's batches and initialise_optimizer ----
    lcfg,       \* trainer_config: optimizer, grad_clipping, epochs
    llen,       \* len(feature_label_dataloader)
    lverbose,   \* _train_loop's verbose argument
    lmodel,     \* self.model: weights and training/evaluation mode
    lpc,        \* "start", "batch", "returned" or "raised"
    lepoch,     \* current_epoch
    lsteps,     \* steps: the batches of the epoch begun so far
    llog,       \* the batches begun: epoch, step, operations done, progress log
    lerror,     \* the exception _train_loop raised, or None
    linit,      \* initialise_optimizer: "not called", "returned" or "raised"
    lret,       \* the value initialise_optimizer returned
    lentry,     \* model and trainer_config when initialise_optimizer was called
    \* ---- the hyperparameter sweep train_cleanlab_bert ----
    sargs,      \* path_to_data and output_file
    srun,       \* run_id: the combination of the grid being run, from 0
    sexp,       \* exp: the experiments of the combination done
    sreports,   \* the clf_reports of the combination's experiments, in order
    sresults,   \* results: the records appended so far
    sfiles,     \* the files written: path -> content
    serror,     \* the exception raised, or None
    spc,        \* "experiments", "done" or "raised"
    \* ---- rules, T and Z of the preprocessing pipeline (prepare_mimic_cxr.py) ----
    rlines,     \* lines: the phrases of each class, in file order
    rdata,      \* data: the report texts of the instances
    rT,         \* mapping_rules_labels_t, or None
    rZ,         \* rule_matches_z, or None
    rerror,     \* the exception raised, or "none"
    rpc,        \* "start", "built" or "raised"
    \* ---- report parsing of the preprocessing pipeline (prepare_mimic_cxr.py) ----
    dtext,      \* text: the raw text of a study's report
    drow,       \* the study's row of mimic_cxr_text.csv: findings, impressions
    dreports,   \* the study's rows in reports_processed: impressions, or NaN
    dpc,        \* "start", "written" or "processed"
    \* ---- the data a BaseTrainer holds (_load_train_params) ----
    aself,      \* the trainer's attributes; a data value is the number of the call that supplied it
    aargs,      \* the arguments of the last _load_train_params call
    aentry,     \* the trainer's attributes when that call began
    acalls,     \* the _load_train_params calls made; -1 when idle
    \* ---- label derivation of the preprocessing pipeline (prepare_mimic_cxr.py) ----
    yrow,       \* a row of labels_chexpert: the ids and the label columns that hold 1.0
    ylabel,     \* the row's cell in column 'label': 0, a column name, an id or None
    ypc,        \* "start", "named" or "mapped"
    \* ---- fine-tuning split of the preprocessing pipeline (prepare_mimic_cxr.py) ----
    fn,         \* n: the number of instances of input_list
    findices,   \* indices_train, or None before it is sampled
    ftrain,     \* input_train: the instances (by index) of the training set, or None
    fvalidate,  \* input_validate: the instances of the validation set, or None
    ferror,     \* the exception raised, or "none"
    fpc,        \* "start", "sampled", "split" or "raised"
    \* ---- train_model of the preprocessing pipeline (prepare_mimic_cxr.py) ----
    mnum,       \* num_epochs
    mwts,       \* model.state_dict(): the model's weights
    mbest,      \* best_model_wts and best_acc
    mepoch,     \* epoch
    mphase,     \* the phase that comes next: "train" or "val"
    mhist,      \* per finished epoch: the weights and the accuracy of its validation phase
    mentryW,    \* the model's weights when train_model was called
    mpc         \* "epochs" or "returned"

cvars == <<args, accel, cpc, call, result, error, seed, dirs, trainer>>

tvars == <<cfg, dev, model, trained_model, heap, files, es, pc, calls, caller,
           loader, epoch, steps, train_losses, folds, fold, op, outcome,
           entryW, batchLog, stopped, ckptW, trainedW, loadArgs, loadPath>>

kvars == <<kargs, kcfg, kerror, kpc>>

pvars == <<ptensors, plabels, pds, perror, pbatch, ppc>>

bvars == <<bmodel, bcfg, bargs, bop, bpc, berror, blabels, bepoch, blog, bret, bentry>>

lvars == <<lcfg, llen, lverbose, lmodel, lpc, lepoch, lsteps, llog, lerror, linit, lret, lentry>>

svars == <<sargs, srun, sexp, sreports, sresults, sfiles, serror, spc>>

rvars == <<rlines, rdata, rT, rZ, rerror, rpc>>

dvars == <<dtext, drow, dreports, dpc>>

avars == <<aself, aargs, aentry, acalls>>

yvars == <<yrow, ylabel, ypc>>

fvars == <<fn, findices, ftrain, fvalidate, ferror, fpc>>

mvars == <<mnum, mwts, mbest, mepoch, mphase, mhist, mentryW, mpc>>

\* the variables outside the trainer framework's two state machines
xvars == <<kvars, pvars, bvars, lvars, svars, rvars, dvars, avars, yvars, fvars, mvars>>

vars == <<cvars, tvars, xvars>>

\* no KNNConfig is being constructed
KnnIdle ==
    /\ kargs = <<>>
    /\ kcfg = <<>>
    /\ kerror = "none"
    /\ kpc = "idle"

\* no dataset is being paired
PairIdle ==
    /\ ptensors = <<>>
    /\ plabels = <<>>
    /\ pds = <<>>
    /\ perror = "none"
    /\ pbatch = <<>>
    /\ ppc = "idle"

\* no SimpleDsModelTrainer exists
BaselineIdle ==
    /\ bmodel = <<>>
    /\ bcfg = <<>>
    /\ bargs = <<>>
    /\ bop = "none"
    /\ bpc = "idle"
    /\ berror = <<>>
    /\ blabels = <<>>
    /\ bepoch = 0
    /\ blog = <<>>
    /\ bret = <<>>
    /\ bentry = <<>>

\* no statement-level training loop runs
LoopIdle ==
    /\ lcfg = <<>>
    /\ llen = 0
    /\ lverbose = FALSE
    /\ lmodel = <<>>
    /\ lpc = "idle"
    /\ lepoch = 0
    /\ lsteps = 0
    /\ llog = <<>>
    /\ lerror = <<>>
    /\ linit = "not called"
    /\ lret = <<>>
    /\ lentry = <<>>

\* no sweep runs
SweepIdle ==
    /\ sargs = <<>>
    /\ srun = 0
    /\ sexp = 0
    /\ sreports = <<>>
    /\ sresults = <<>>
    /\ sfiles = <<>>
    /\ serror = <<>>
    /\ spc = "idle"

\* the rule matrices are not being built
RulesIdle ==
    /\ rlines = <<>>
    /\ rdata = <<>>
    /\ rT = <<>>
    /\ rZ = <<>>
    /\ rerror = "none"
    /\ rpc = "idle"

\* no report is being parsed
ReportIdle ==
    /\ dtext = <<>>
    /\ drow = <<>>
    /\ dreports = <<>>
    /\ dpc = "idle"

\* no trainer's data is being swapped
ParamsIdle ==
    /\ aself = <<>>
    /\ aargs = <<>>
    /\ aentry = <<>>
    /\ acalls = -1

\* no label is being derived
LabelsIdle ==
    /\ yrow = <<>>
    /\ ylabel = 0
    /\ ypc = "idle"

\* no fine-tuning split is being made
SplitIdle ==
    /\ fn = 0
    /\ findices = <<>>
    /\ ftrain = <<>>
    /\ fvalidate = <<>>
    /\ ferror = "none"
    /\ fpc = "idle"

\* train_model is not running
TuneIdle ==
    /\ mnum = 0
    /\ mwts = 0
    /\ mbest = <<>>
    /\ mepoch = 0
    /\ mphase = "train"
    /\ mhist = <<>>
    /\ mentryW = 0
    /\ mpc = "idle"

\* everything but the KNNConfig construction
notKnn ==
    <<cvars, tvars, pvars, bvars, lvars, svars, rvars, dvars, avars, yvars, fvars, mvars>>

\* everything but the pairing of features and labels
notPair ==
    <<cvars, tvars, kvars, bvars, lvars, svars, rvars, dvars, avars, yvars, fvars, mvars>>

\* everything but the SimpleDsModelTrainer
notBaseline ==
    <<cvars, tvars, kvars, pvars, lvars, svars, rvars, dvars, avars, yvars, fvars, mvars>>

\* everything but the statement-level training loop
notLoop ==
    <<cvars, tvars, kvars, pvars, bvars, svars, rvars, dvars, avars, yvars, fvars, mvars>>

\* everything but the sweep
notSweep ==
    <<cvars, tvars, kvars, pvars, bvars, lvars, rvars, dvars, avars, yvars, fvars, mvars>>

\* everything but the building of the rule matrices
notRules ==
    <<cvars, tvars, kvars, pvars, bvars, lvars, svars, dvars, avars, yvars, fvars, mvars>>

\* everything but the parsing of a report
notReport ==
    <<cvars, tvars, kvars, pvars, bvars, lvars, svars, rvars, avars, yvars, fvars, mvars>>

\* everything but the trainer's data attributes
notParams ==
    <<cvars, tvars, kvars, pvars, bvars, lvars, svars, rvars, dvars, yvars, fvars, mvars>>

\* everything but the derivation of a label
notLabels ==
    <<cvars, tvars, kvars, pvars, bvars, lvars, svars, rvars, dvars, avars, fvars, mvars>>

\* everything but the fine-tuning split
notSplit ==
    <<cvars, tvars, kvars, pvars, bvars, lvars, svars, rvars, dvars, avars, yvars, mvars>>

\* everything but train_model
notTune ==
    <<cvars, tvars, kvars, pvars, bvars, lvars, svars, rvars, dvars, avars, yvars, fvars>>

\* nothing outside the trainer framework's two state machines is running
XIdle ==
    /\ KnnIdle
    /\ PairIdle
    /\ BaselineIdle
    /\ LoopIdle
    /\ SweepIdle
    /\ RulesIdle
    /\ ReportIdle
    /\ ParamsIdle
    /\ LabelsIdle
    /\ SplitIdle
    /\ TuneIdle

(***************************************************************************)
(* TrainerConfig.__init__                                                  *)
(***************************************************************************)
NoError == "none"

EpochsError == "ValueError: Epochs needs to be positive"

OptimizerError == "ValueError: An optimizer needs to be provided"

ClassWeightsError == "Exception: Wrong class sample_weights initialisation!"

\* the defaults of the constructor's signature, with the first positional
\* argument (criterion) given
DefaultArgs(criterion) ==
    [criterion |-> criterion, batch_size |-> 32, optimizer |-> None,
     output_classes |-> 2, epochs |-> 35, output_dir_path |-> None,
     if_set_seed |-> FALSE, filter_non_labelled |-> TRUE,
     use_probabilistic_labels |-> TRUE, other_class_id |-> None,
     grad_clipping |-> None, class_weights |-> None]

\* tensors of n class weights
Ones(n) == [i \in 1..n |-> 1]

\* the argument tuples the model constructs configurations from
ArgSpace ==
    [criterion : {"cross_entropy_with_probs", "model"},
     batch_size : {32, 16},
     optimizer : {None, Some("SGD")},
     output_classes : 1..MaxClasses,
     epochs : -1..MaxCfgEpochs,
     output_dir_path : {None, Some("out")},
     if_set_seed : BOOLEAN,
     filter_non_labelled : BOOLEAN,
     use_probabilistic_labels : BOOLEAN,
     other_class_id : {None, Some(0)},
     grad_clipping : {None, Some(5)},
     class_weights : {None} \cup {Some(Ones(n)) : n \in 0..MaxCWLen}]

\* if epochs <= 0
EpochsInvalid_OffByOne(epochs) == epochs < 0

EpochsInvalid(epochs) == epochs <= 0

\* if optimizer is None
OptimizerMissing_Never(optimizer) == FALSE

OptimizerMissing(optimizer) == optimizer = None

\* if class_weights is not None and len(class_weights) != self.output_classes
ClassWeightsInvalid_Shorter(class_weights, output_classes) ==
    class_weights # None /\ Len(Val(class_weights)) < output_classes

ClassWeightsInvalid(class_weights, output_classes) ==
    class_weights # None /\ Len(Val(class_weights)) # output_classes

\* check_and_return_device()
Device(accelerator) == IF accelerator THEN "cuda" ELSE "cpu"

\* the attributes the constructor assigns to self
ConfigAttributes(a, accelerator) ==
    [criterion |-> a.criterion, batch_size |-> a.batch_size,
     epochs |-> a.epochs, optimizer |-> a.optimizer,
     output_classes |-> a.output_classes, device |-> Device(accelerator),
     output_dir_path |-> a.output_dir_path,
     filter_non_labelled |-> a.filter_non_labelled,
     use_probabilistic_labels |-> a.use_probabilistic_labels,
     other_class_id |-> a.other_class_id,
     grad_clipping |-> a.grad_clipping,
     class_weights |-> a.class_weights]

\* The constructor on arguments a, with the seed s and the directories d of
\* the process: the exception raised, the object built (None when it raised),
\* and the seed and directories afterwards.
TrainerConfigInit(a, accelerator, s, d) ==
    LET s1 == IF a.if_set_seed THEN Some(12345) ELSE s
        d1 == IF a.output_dir_path # None
              THEN d \cup {Val(a.output_dir_path)} ELSE d
    IN  IF EpochsInvalid(a.epochs)
        THEN [error |-> EpochsError, obj |-> None, seed |-> s1, dirs |-> d]
        ELSE IF OptimizerMissing(a.optimizer)
        THEN [error |-> OptimizerError, obj |-> None, seed |-> s1, dirs |-> d]
        ELSE IF ClassWeightsInvalid(a.class_weights, a.output_classes)
        THEN [error |-> ClassWeightsError, obj |-> None, seed |-> s1,
              dirs |-> d1]
        ELSE [error |-> NoError,
              obj |-> Some(ConfigAttributes(a, accelerator)),
              seed |-> s1, dirs |-> d1]

(***************************************************************************)
(* The trainer constructors                                                *)
(***************************************************************************)
TheModel == "LogisticRegressionModel(10, 2)"

\* Trainer.__init__ with trainer_config tc (None when omitted): a missing
\* configuration is built by TrainerConfig(model)
TrainerInit(mdl, tc, accelerator, s, d) ==
    IF tc = None
    THEN LET r == TrainerConfigInit(DefaultArgs(mdl), accelerator, s, d)
         IN  [error |-> r.error,
              obj |-> IF r.error = NoError
                      THEN Some([model |-> mdl, trainer_config |-> r.obj])
                      ELSE None,
              seed |-> r.seed, dirs |-> r.dirs]
    ELSE [error |-> NoError,
          obj |-> Some([model |-> mdl, trainer_config |-> tc]),
          seed |-> s, dirs |-> d]

\* DsModelTrainer.__init__
DsModelTrainerInit(mdl, tc, accelerator, s, d) ==
    IF tc = None
    THEN LET r == TrainerConfigInit(DefaultArgs(mdl), accelerator, s, d)
         IN  [error |-> r.error,
              obj |-> IF r.error = NoError
                      THEN Some([model |-> mdl, trainer_config |-> r.obj])
                      ELSE None,
              seed |-> r.seed, dirs |-> r.dirs]
    ELSE [error |-> NoError,
          obj |-> Some([model |-> mdl, trainer_config |-> tc]),
          seed |-> s, dirs |-> d]

\* SimpleDsModelTrainer.__init__: super().__init__(model, trainer_config)
SimpleDsModelTrainerInit(mdl, tc, accelerator, s, d) ==
    DsModelTrainerInit(mdl, tc, accelerator, s, d)

TrainerKinds == {"Trainer", "DsModelTrainer", "SimpleDsModelTrainer"}

Construct(kind, mdl, tc, accelerator, s, d) ==
    CASE kind = "Trainer" -> TrainerInit(mdl, tc, accelerator, s, d)
      [] kind = "DsModelTrainer" ->
            DsModelTrainerInit(mdl, tc, accelerator, s, d)
      [] OTHER -> SimpleDsModelTrainerInit(mdl, tc, accelerator, s, d)

(***************************************************************************)
(* The constructing program: one TrainerConfig(...) call on the arguments  *)
(* drawn initially, and trainer constructions with the configuration       *)
(* omitted or with the configuration built.                                *)
(***************************************************************************)
\* no trainer in use (the trainer part of the state, under SpecConfig)
TrainerIdle ==
    /\ cfg = [epochs |-> 1, early_stopping |-> FALSE,
              save_model_name |-> None, save_model_path |-> None]
    /\ dev = None
    /\ model = 0
    /\ trained_model = None
    /\ heap = [o \in 0..(MaxObjs - 1) |-> [w |-> 0, training |-> FALSE]]
    /\ files = <<>>
    /\ es = None
    /\ pc = "off"
    /\ calls = 0
    /\ caller = "top"
    /\ loader = 0
    /\ epoch = 0
    /\ steps = 0
    /\ train_losses = 0
    /\ folds = 0
    /\ fold = 0
    /\ op = "none"
    /\ outcome = "returned"
    /\ entryW = 0
    /\ batchLog = <<>>
    /\ stopped = FALSE
    /\ ckptW = None
    /\ trainedW = None
    /\ loadArgs = <<None, None>>
    /\ loadPath = ""

ConfigIdle ==
    /\ args = DefaultArgs("cross_entropy_with_probs")
    /\ accel = FALSE
    /\ cpc = "off"
    /\ call = "none"
    /\ result = None
    /\ error = NoError
    /\ seed = None
    /\ dirs = {}
    /\ trainer = None

\* A state machine outside the trainer framework runs alone: the others are
\* idle.
KnnAlone ==
    /\ ConfigIdle
    /\ TrainerIdle
    /\ PairIdle
    /\ BaselineIdle
    /\ LoopIdle
    /\ SweepIdle
    /\ RulesIdle
    /\ ReportIdle
    /\ ParamsIdle
    /\ LabelsIdle
    /\ SplitIdle
    /\ TuneIdle

PairAlone ==
    /\ ConfigIdle
    /\ TrainerIdle
    /\ KnnIdle
    /\ BaselineIdle
    /\ LoopIdle
    /\ SweepIdle
    /\ RulesIdle
    /\ ReportIdle
    /\ ParamsIdle
    /\ LabelsIdle
    /\ SplitIdle
    /\ TuneIdle

BaselineAlone ==
    /\ ConfigIdle
    /\ TrainerIdle
    /\ KnnIdle
    /\ PairIdle
    /\ LoopIdle
    /\ SweepIdle
    /\ RulesIdle
    /\ ReportIdle
    /\ ParamsIdle
    /\ LabelsIdle
    /\ SplitIdle
    /\ TuneIdle

LoopAlone ==
    /\ ConfigIdle
    /\ TrainerIdle
    /\ KnnIdle
    /\ PairIdle
    /\ BaselineIdle
    /\ SweepIdle
    /\ RulesIdle
    /\ ReportIdle
    /\ ParamsIdle
    /\ LabelsIdle
    /\ SplitIdle
    /\ TuneIdle

SweepAlone ==
    /\ ConfigIdle
    /\ TrainerIdle
    /\ KnnIdle
    /\ PairIdle
    /\ BaselineIdle
    /\ LoopIdle
    /\ RulesIdle
    /\ ReportIdle
    /\ ParamsIdle
    /\ LabelsIdle
    /\ SplitIdle
    /\ TuneIdle

RulesAlone ==
    /\ ConfigIdle
    /\ TrainerIdle
    /\ KnnIdle
    /\ PairIdle
    /\ BaselineIdle
    /\ LoopIdle
    /\ SweepIdle
    /\ ReportIdle
    /\ ParamsIdle
    /\ LabelsIdle
    /\ SplitIdle
    /\ TuneIdle

ReportAlone ==
    /\ ConfigIdle
    /\ TrainerIdle
    /\ KnnIdle
    /\ PairIdle
    /\ BaselineIdle
    /\ LoopIdle
    /\ SweepIdle
    /\ RulesIdle
    /\ ParamsIdle
    /\ LabelsIdle
    /\ SplitIdle
    /\ TuneIdle

ParamsAlone ==
    /\ ConfigIdle
    /\ TrainerIdle
    /\ KnnIdle
    /\ PairIdle
    /\ BaselineIdle
    /\ LoopIdle
    /\ SweepIdle
    /\ RulesIdle
    /\ ReportIdle
    /\ LabelsIdle
    /\ SplitIdle
    /\ TuneIdle

LabelsAlone ==
    /\ ConfigIdle
    /\ TrainerIdle
    /\ KnnIdle
    /\ PairIdle
    /\ BaselineIdle
    /\ LoopIdle
    /\ SweepIdle
    /\ RulesIdle
    /\ ReportIdle
    /\ ParamsIdle
    /\ SplitIdle
    /\ TuneIdle

SplitAlone ==
    /\ ConfigIdle
    /\ TrainerIdle
    /\ KnnIdle
    /\ PairIdle
    /\ BaselineIdle
    /\ LoopIdle
    /\ SweepIdle
    /\ RulesIdle
    /\ ReportIdle
    /\ ParamsIdle
    /\ LabelsIdle
    /\ TuneIdle

TuneAlone ==
    /\ ConfigIdle
    /\ TrainerIdle
    /\ KnnIdle
    /\ PairIdle
    /\ BaselineIdle
    /\ LoopIdle
    /\ SweepIdle
    /\ RulesIdle
    /\ ReportIdle
    /\ ParamsIdle
    /\ LabelsIdle
    /\ SplitIdle

InitConfig ==
    /\ TrainerIdle
    /\ XIdle
    /\ args \in ArgSpace
    /\ accel \in BOOLEAN
    /\ cpc = "start"
    /\ call = "none"
    /\ result = None
    /\ error = NoError
    /\ seed = None
    /\ dirs = {}
    /\ trainer = None

\* config = TrainerConfig(**args)
NewTrainerConfig ==
    /\ cpc = "start"
    /\ LET r == TrainerConfigInit(args, accel, seed, dirs)
       IN  /\ result' = r.obj
           /\ error' = r.error
           /\ seed' = r.seed
           /\ dirs' = r.dirs
    /\ cpc' = "configured"
    /\ call' = "TrainerConfig"
    /\ UNCHANGED <<args, accel, trainer>>
    /\ UNCHANGED <<tvars, xvars>>

\* a trainer constructed without a trainer_config
NewTrainerDefault(kind) ==
    /\ cpc \in {"start", "configured"}
    /\ LET r == Construct(kind, TheModel, None, accel, seed, dirs)
       IN  /\ trainer' = r.obj
           /\ error' = r.error
           /\ seed' = r.seed
           /\ dirs' = r.dirs
    /\ cpc' = "constructed_default"
    /\ call' = kind
    /\ UNCHANGED <<args, accel, result>>
    /\ UNCHANGED <<tvars, xvars>>

\* a trainer constructed with the configuration built before
NewTrainerWith(kind) ==
    /\ cpc = "configured"
    /\ result # None
    /\ LET r == Construct(kind, TheModel, result, accel, seed, dirs)
       IN  /\ trainer' = r.obj
           /\ error' = r.error
           /\ seed' = r.seed
           /\ dirs' = r.dirs
    /\ cpc' = "constructed"
    /\ call' = kind
    /\ UNCHANGED <<args, accel, result>>
    /\ UNCHANGED <<tvars, xvars>>

NextConfig ==
    \/ NewTrainerConfig
    \/ \E kind \in TrainerKinds : NewTrainerDefault(kind)
    \/ \E kind \in TrainerKinds : NewTrainerWith(kind)

SpecConfig == InitConfig /\ [][NextConfig]_vars

(***************************************************************************)
(* Claims about the constructors, checked under SpecConfig.                *)
(***************************************************************************)
\* whether the last TrainerConfig(...) call raised
Failed == error # NoError

\* C6: constructing a trainer without a trainer_config succeeds and yields a
\* trainer that owns a default configuration object (Trainer.__init__,
\* DsModelTrainer.__init__, SimpleDsModelTrainer(model)).
C6_DefaultConfigConstructed ==
    cpc = "constructed_default" =>
        /\ error = NoError
        /\ trainer # None
        /\ Val(trainer).trainer_config # None

\* C7: a TrainerConfig constructed with the optimizer omitted always fails
\* with a configuration error, whatever the other fields, and no
\* configuration object is produced.
C7_OptimizerRequired ==
    (cpc = "configured" /\ args.optimizer = None) =>
        /\ error \in {EpochsError, OptimizerError}
        /\ result = None

C7_Witness ==
    /\ cpc = "configured"
    /\ args.optimizer = None
    /\ args.epochs > 0
    /\ args.class_weights # None
    /\ error = OptimizerError
    /\ result = None

\* C8: a TrainerConfig constructed with epochs <= 0 always fails with a
\* configuration error, whatever the other fields; every TrainerConfig that
\* exists has epochs >= 1.
C8_EpochsPositive ==
    cpc = "configured" =>
        /\ args.epochs <= 0 => (error = EpochsError /\ result = None)
        /\ result # None => Val(result).epochs >= 1

C8_Witness ==
    /\ cpc = "configured"
    /\ args.epochs = 0
    /\ args.optimizer # None
    /\ error = EpochsError
    /\ result = None

\* whether the class_weights argument is given with a length other than
\* output_classes
WeightsMismatch ==
    /\ args.class_weights # None
    /\ Len(Val(args.class_weights)) # args.output_classes

\* C9 as stated: a TrainerConfig constructed with class_weights given fails
\* exactly when len(class_weights) != output_classes.
C9_FailsExactlyOnMismatch ==
    (cpc = "configured" /\ args.class_weights # None) =>
        (Failed <=> WeightsMismatch)

\* C9 as amended: with class_weights given, positive epochs and an optimizer
\* supplied, construction fails exactly when len(class_weights) !=
\* output_classes; a mismatch fails whatever the other fields; every
\* TrainerConfig that exists has class_weights absent or of length
\* output_classes.
C9_FailsExactlyOnMismatchOfValidBase ==
    cpc = "configured" =>
        /\ (args.class_weights # None /\ args.epochs > 0
              /\ args.optimizer # None) => (Failed <=> WeightsMismatch)
        /\ WeightsMismatch => (Failed /\ result = None)
        /\ result # None =>
              \/ Val(result).class_weights = None
              \/ Len(Val(Val(result).class_weights))
                    = Val(result).output_classes

C9_Witness ==
    /\ cpc = "configured"
    /\ WeightsMismatch
    /\ args.epochs > 0
    /\ args.optimizer # None
    /\ error = ClassWeightsError
    /\ result = None

\* the fields a caller supplies to TrainerConfig(...)
SuppliedFields ==
    {"criterion", "batch_size", "optimizer", "output_classes", "epochs",
     "output_dir_path", "if_set_seed", "filter_non_labelled",
     "use_probabilistic_labels", "other_class_id", "grad_clipping",
     "class_weights"}

\* the arguments C10 is about: positive epochs, an optimizer, class_weights
\* absent or of matching length
ValidArgs ==
    /\ args.epochs > 0
    /\ args.optimizer # None
    /\ ~WeightsMismatch

\* C10: for positive epochs and a supplied optimizer (class_weights absent or
\* matching) construction succeeds and every supplied field can be read back
\* from the configuration with the supplied value.
C10_RoundTripsAllFields ==
    (cpc = "configured" /\ ValidArgs) =>
        /\ error = NoError
        /\ result # None
        /\ \A f \in SuppliedFields :
              /\ f \in DOMAIN Val(result)
              /\ Val(result)[f] = args[f]

\* What the code does for C10's arguments: construction succeeds and every
\* supplied field but if_set_seed is an attribute holding the supplied value;
\* if_set_seed is consumed (the seed is set to 12345) and not stored.
C10_RoundTripsStoredFields ==
    (cpc = "configured" /\ ValidArgs) =>
        /\ error = NoError
        /\ result # None
        /\ \A f \in SuppliedFields \ {"if_set_seed"} :
              /\ f \in DOMAIN Val(result)
              /\ Val(result)[f] = args[f]
        /\ "if_set_seed" \notin DOMAIN Val(result)
        /\ args.if_set_seed => seed = Some(12345)

(***************************************************************************)
(* BaseTrainer: model objects, checkpoint files, early stopping            *)
(***************************************************************************)
ObjIds == 0..(MaxObjs - 1)

\* The weights of a model are compared, never computed with: two values,
\* 0 and MaxW, tell the weights of one moment from those of another.
MaxW == 1

Weights == 0..MaxW

Losses == 0..MaxLoss

\* an object no reference reaches
Blank == [w |-> 0, training |-> FALSE]

\* self.model.train()
ModelTrain(h, m) == [h EXCEPT ![m].training = TRUE]

\* self.model.eval()
ModelEval(h, m) == [h EXCEPT ![m].training = FALSE]

\* self.trainer_config.optimizer.step(): the weights become w
OptimizerStep(h, m, w) == [h EXCEPT ![m].w = w]

\* self.model.load_state_dict(state): the weights become the saved ones
LoadStateDict(h, m, w) == [h EXCEPT ![m].w = w]

\* copy.deepcopy(src), stored as object dst
DeepCopy(h, src, dst) == [h EXCEPT ![dst] = h[src]]

\* the identity of a new object: one that no live reference holds
Fresh(live) == CHOOSE o \in ObjIds \ live : \A q \in ObjIds \ live : o <= q

\* the heap with the unreachable objects reclaimed
Collect(h, live) == [o \in ObjIds |-> IF o \in live THEN h[o] ELSE Blank]

\* the weights of the trainer's model
W == heap[model].w

\* `not s` for an optional string: None or the empty string
Falsy(s) == s = None \/ Val(s) = ""

\* os.path.join(path, name)
PathJoin(path, name) == path \o "/" \o name

\* load_model's model_path for its arguments
ModelPath(save_model_name, save_model_path) ==
    PathJoin(IF Falsy(save_model_path) THEN "trained_models"
             ELSE Val(save_model_path),
             (IF Falsy(save_model_name) THEN "checkpoint_best"
              ELSE Val(save_model_name)) \o "_best.pt")

\* BaseTrainer.load_model: the heap afterwards and whether an exception
\* leaves it.  torch.load raises FileNotFoundError for a path that holds no
\* file; the except clause catches and logs it.
LoadModel_Uncaught(h, m, f, save_model_name, save_model_path) ==
    LET model_path == ModelPath(save_model_name, save_model_path)
    IN  IF model_path \in DOMAIN f
        THEN [heap |-> LoadStateDict(h, m, f[model_path]), raised |-> FALSE]
        ELSE [heap |-> h, raised |-> TRUE]

LoadModel(h, m, f, save_model_name, save_model_path) ==
    LET model_path == ModelPath(save_model_name, save_model_path)
    IN  IF model_path \in DOMAIN f
        THEN [heap |-> LoadStateDict(h, m, f[model_path]), raised |-> FALSE]
        ELSE [heap |-> h, raised |-> FALSE]

\* The early-stopping monitor (knodle.model.EarlyStopping): best recorded
\* loss, patience counter, stop flag, and where it checkpoints.
NewEarlyStopping(save_model_path, save_model_name) ==
    [best |-> None, counter |-> 0, early_stop |-> FALSE,
     save_model_path |-> save_model_path,
     save_model_name |-> save_model_name]

\* the monitor's checkpoint file: <save_model_path>/<save_model_name>_best.pt,
\* by default trained_models/checkpoint_best_best.pt
EarlyStoppingPath(e) ==
    PathJoin(IF Falsy(e.save_model_path) THEN "trained_models"
             ELSE Val(e.save_model_path),
             (IF Falsy(e.save_model_name) THEN "checkpoint_best"
              ELSE Val(e.save_model_name)) \o "_best.pt")

\* whether a loss improves on the best recorded value
Improves(e, loss) == e.best = None \/ loss < Val(e.best)

\* es(dev_loss, model): the monitor afterwards
EarlyStoppingCall(e, loss) ==
    IF Improves(e, loss)
    THEN [e EXCEPT !.best = Some(loss), !.counter = 0]
    ELSE [e EXCEPT !.counter = @ + 1,
                   !.early_stop = (e.counter + 1 > Patience)]

\* the files after es(dev_loss, model) for a model of weights w
EarlyStoppingFiles(e, loss, w, f) ==
    IF Improves(e, loss)
    THEN [p \in DOMAIN f \cup {EarlyStoppingPath(e)} |->
            IF p = EarlyStoppingPath(e) THEN w ELSE f[p]]
    ELSE f

\* BaseTrainer._prediction_loop: model.eval(), then forward passes under
\* torch.no_grad() (optimizer.zero_grad() clears gradients, not weights)
PredictionLoop_Steps(h, m) ==
    [h EXCEPT ![m].training = FALSE, ![m].w = (@ + 1) % (MaxW + 1)]

PredictionLoop(h, m) == ModelEval(h, m)

\* if es.early_stop: break
ShouldBreak_Never(e) == FALSE

ShouldBreak(e) == e.early_stop

\* the end of an epoch that goes on: self.model.train()
EndOfEpochMode_Keep(h, m) == h

EndOfEpochMode(h, m) == ModelTrain(h, m)

\* the trainer configurations of the model (the fields the loops read)
TrainerCfgs ==
    {[epochs |-> e, early_stopping |-> s, save_model_name |-> n[1],
      save_model_path |-> n[2]] :
        e \in 1..MaxEpochs, s \in BOOLEAN,
        n \in {<<None, None>>, <<Some("m"), Some("d")>>}}

\* the checkpoint files a run may find on disk at the path of configuration
\* c, left by an earlier run: none, or one of weights MaxW
StaleFiles(c) ==
    {<<>>,
     [p \in {ModelPath(c.save_model_name, c.save_model_path)} |-> MaxW]}

\* An evaluation dataloader, by whether it yields batches: _prediction_loop
\* is modelled as one step, whose outcome depends on the batches only
\* through there being one.
Loaders == {"empty", "batches"}

\* the arguments load_model is called with
NameArgs == {None, Some(""), Some("m")}

PathArgs == {None, Some(""), Some("d")}

(***************************************************************************)
(* The trainer's state machine                                             *)
(***************************************************************************)
Init ==
    /\ ConfigIdle
    /\ XIdle
    /\ cfg \in TrainerCfgs
    /\ dev \in {None} \cup {Some(l) : l \in Loaders}
    /\ model = 0
    /\ trained_model = None
    /\ \E w \in Weights, t \in BOOLEAN :
          heap = [o \in ObjIds |->
                    IF o = 0 THEN [w |-> w, training |-> t] ELSE Blank]
    /\ files \in StaleFiles(cfg)
    /\ es = None
    /\ pc = "idle"
    /\ calls = 0
    /\ caller = "top"
    /\ loader = 0
    /\ epoch = 0
    /\ steps = 0
    /\ train_losses = 0
    /\ folds = 0
    /\ fold = 0
    /\ op = "none"
    /\ outcome = "returned"
    /\ entryW = 0
    /\ batchLog = <<>>
    /\ stopped = FALSE
    /\ ckptW = None
    /\ trainedW = None
    /\ loadArgs = <<None, None>>
    /\ loadPath = ""

\* the caller invokes one more method on the trainer
Invoke ==
    /\ pc = "idle"
    /\ calls < MaxCalls
    /\ calls' = calls + 1

\* a call that runs no training loop has no locals and no history of one
NoLoopHistory ==
    /\ batchLog' = <<>>
    /\ stopped' = FALSE
    /\ ckptW' = None
    /\ trainedW' = None
    /\ train_losses' = 0
    /\ es' = None
    /\ caller' = "top"
    /\ loader' = 0
    /\ epoch' = 0
    /\ steps' = 0

\* a call that is no _validate_with_cv has no folds
NoFoldHistory ==
    /\ folds' = 0
    /\ fold' = 0

\* a call that is no load_model has read no path
NoLoadHistory ==
    /\ loadArgs' = <<None, None>>
    /\ loadPath' = ""

\* the references that keep model objects alive
Live(m, tm) == {m} \cup (IF tm = None THEN {} ELSE {Val(tm)})

\* an exception leaves the running method and its callers: the locals of
\* _validate_with_cv are dropped, self.model stays what it is
Raise(h) ==
    /\ pc' = "idle"
    /\ outcome' = "raised"
    /\ trained_model' = None
    /\ heap' = Collect(h, {model})

\* _train_loop, lines 143-158: the monitor is created when early stopping is
\* configured and a dev set is present; the model is put in training mode
TrainLoopStart(n) ==
    /\ \/ Invoke
       \/ pc = "cv_train" /\ UNCHANGED calls
    /\ loader' = n
    /\ es' = IF cfg.early_stopping /\ dev # None
             THEN Some(NewEarlyStopping(cfg.save_model_path,
                                        cfg.save_model_name))
             ELSE None
    /\ heap' = ModelTrain(heap, model)
    /\ epoch' = 0
    /\ steps' = 0
    /\ train_losses' = 0
    /\ batchLog' = <<>>
    /\ stopped' = FALSE
    /\ ckptW' = None
    /\ trainedW' = None
    /\ pc' = "batch"
    /\ IF pc = "idle"
       THEN /\ caller' = "top"
            /\ op' = "_train_loop"
            /\ outcome' = "running"
            /\ entryW' = W
            /\ NoFoldHistory
            /\ NoLoadHistory
       ELSE /\ caller' = "cv"
            /\ UNCHANGED <<op, outcome, entryW, folds, fold, loadArgs,
                           loadPath>>
    /\ UNCHANGED <<cfg, dev, model, trained_model, files>>
    /\ UNCHANGED <<cvars, xvars>>

\* _train_loop, lines 167-204: one batch: forward pass, loss, backward pass,
\* optimizer step (the weights become some w); progress logging absorbs its
\* ZeroDivisionError
TrainBatch(w) ==
    /\ pc = "batch"
    /\ steps < loader
    /\ heap' = OptimizerStep(heap, model, w)
    /\ batchLog' = Append(batchLog, [epoch |-> epoch, step |-> steps,
                                     training |-> heap[model].training])
    /\ steps' = steps + 1
    /\ trainedW' = Some(w)
    /\ UNCHANGED <<cfg, dev, model, trained_model, files, es, pc, caller,
                   loader, epoch, train_losses, folds, fold, op, outcome,
                   entryW, stopped, ckptW, loadArgs, loadPath>>
    /\ UNCHANGED <<calls, cvars, xvars>>

\* the epoch loop goes on to the next epoch, or ends after the last one
\* (lines 227-228, then line 160)
Continue(h) ==
    /\ heap' = EndOfEpochMode(h, model)
    /\ epoch' = epoch + 1
    /\ steps' = 0
    /\ pc' = IF epoch + 1 < cfg.epochs THEN "batch" ELSE "after_loop"
    /\ UNCHANGED <<outcome, trained_model, stopped>>

\* _train_loop, lines 206-228: the end of an epoch.  The averages divide by
\* len(feature_label_dataloader) (ZeroDivisionError for no batches); with a
\* dev set test_with_loss evaluates it (np.hstack raises ValueError for no
\* batches) and gives the loss; with early stopping the monitor is called on
\* that loss and the loop is left when its flag is set.
EpochEnd(loss) ==
    /\ pc = "batch"
    /\ steps = loader
    /\ IF loader = 0
       THEN /\ Raise(heap)
            /\ es' = None
            /\ UNCHANGED <<files, epoch, steps, train_losses, stopped, ckptW>>
       ELSE /\ train_losses' = train_losses + 1
            /\ IF dev = None
               THEN /\ Continue(heap)
                    /\ UNCHANGED <<es, files, ckptW>>
               ELSE IF Val(dev) = "empty"
               THEN /\ Raise(PredictionLoop(heap, model))
                    /\ es' = None
                    /\ UNCHANGED <<files, epoch, steps, stopped, ckptW>>
               ELSE IF ~cfg.early_stopping
               THEN /\ Continue(PredictionLoop(heap, model))
                    /\ UNCHANGED <<es, files, ckptW>>
               ELSE /\ es' = Some(EarlyStoppingCall(Val(es), loss))
                    /\ files' = EarlyStoppingFiles(Val(es), loss, W, files)
                    /\ ckptW' = IF Improves(Val(es), loss)
                                THEN Some(W) ELSE ckptW
                    /\ IF ShouldBreak(EarlyStoppingCall(Val(es), loss))
                       THEN /\ heap' = PredictionLoop(heap, model)
                            /\ pc' = "after_loop"
                            /\ stopped' = TRUE
                            /\ UNCHANGED <<epoch, steps, outcome,
                                           trained_model>>
                       ELSE Continue(PredictionLoop(heap, model))
    /\ UNCHANGED <<cfg, dev, model, caller, loader, folds, fold, op, entryW,
                   batchLog, loadArgs, loadPath>>
    /\ UNCHANGED <<calls, trainedW, cvars, xvars>>

\* line 246: `if self.trainer_config.early_stopping:` guards the load of
\* the checkpoint; the dev set d is not asked for
LoadsCheckpoint_OnlyWithDev(c, d) == c.early_stopping /\ d # None

LoadsCheckpoint(c, d) == c.early_stopping

\* _train_loop, lines 230-248: the model is put in evaluation mode and, with
\* early stopping configured, the checkpoint is loaded; then it returns
TrainLoopFinish ==
    /\ pc = "after_loop"
    /\ es' = None
    /\ LET loaded == LoadModel(ModelEval(heap, model), model, files,
                               cfg.save_model_name, cfg.save_model_path)
       IN  IF LoadsCheckpoint(cfg, dev) /\ loaded.raised
           THEN Raise(loaded.heap)
           ELSE /\ heap' = IF LoadsCheckpoint(cfg, dev) THEN loaded.heap
                           ELSE ModelEval(heap, model)
                /\ IF caller = "top"
                   THEN pc' = "idle" /\ outcome' = "returned"
                   ELSE pc' = "cv_test" /\ UNCHANGED outcome
                /\ UNCHANGED trained_model
    /\ UNCHANGED <<cfg, dev, model, files, caller, loader, epoch, steps,
                   train_losses, folds, fold, op, entryW, batchLog, stopped,
                   ckptW, loadArgs, loadPath>>
    /\ UNCHANGED <<calls, trainedW, cvars, xvars>>

\* BaseTrainer.test and BaseTrainer.test_with_loss on the dataset of
\* dataloader l
Test(kind, l) ==
    /\ Invoke
    /\ op' = kind
    /\ entryW' = W
    /\ heap' = PredictionLoop(heap, model)
    /\ outcome' = IF l = "empty" THEN "raised" ELSE "returned"
    /\ NoLoopHistory
    /\ NoFoldHistory
    /\ NoLoadHistory
    /\ UNCHANGED <<cfg, dev, model, trained_model, files, pc>>
    /\ UNCHANGED <<cvars, xvars>>

\* BaseTrainer.load_model(save_model_name, save_model_path)
LoadModelCall(save_model_name, save_model_path) ==
    /\ Invoke
    /\ op' = "load_model"
    /\ entryW' = W
    /\ loadArgs' = <<save_model_name, save_model_path>>
    /\ loadPath' = ModelPath(save_model_name, save_model_path)
    /\ LET loaded == LoadModel(heap, model, files, save_model_name,
                               save_model_path)
       IN  /\ heap' = loaded.heap
           /\ outcome' = IF loaded.raised THEN "raised" ELSE "returned"
    /\ NoLoopHistory
    /\ NoFoldHistory
    /\ UNCHANGED <<cfg, dev, model, trained_model, files, pc>>
    /\ UNCHANGED <<cvars, xvars>>

\* _validate_with_cv, lines 376-385: trained_model = copy.deepcopy(self.model)
\* and the datasets of the folds
ValidateStart(f) ==
    /\ Invoke
    /\ op' = "_validate_with_cv"
    /\ outcome' = "running"
    /\ entryW' = W
    /\ trained_model' = Some(Fresh({model}))
    /\ heap' = DeepCopy(heap, model, Fresh({model}))
    /\ folds' = f
    /\ fold' = 0
    /\ pc' = "cv_loop"
    /\ NoLoopHistory
    /\ NoLoadHistory
    /\ UNCHANGED <<cfg, dev, model, files>>
    /\ UNCHANGED <<cvars, xvars>>

\* line 388: self.model = copy.deepcopy(trained_model); the model and the
\* heap afterwards
FoldModel_Alias(h, m, tm) == [model |-> tm, heap |-> Collect(h, {tm})]

FoldModel(h, m, tm) ==
    [model |-> Fresh({m, tm}),
     heap |-> Collect(DeepCopy(h, tm, Fresh({m, tm})), {Fresh({m, tm}), tm})]

\* _validate_with_cv, lines 386-391: a fold begins on a copy of trained_model
\* and calls _train_loop
FoldBegin ==
    /\ pc = "cv_loop"
    /\ fold < folds
    /\ model' = FoldModel(heap, model, Val(trained_model)).model
    /\ heap' = FoldModel(heap, model, Val(trained_model)).heap
    /\ pc' = "cv_train"
    /\ UNCHANGED <<cfg, dev, trained_model, files, es, caller, loader, epoch,
                   steps, train_losses, folds, fold, op, outcome, entryW,
                   batchLog, stopped, ckptW, loadArgs, loadPath>>
    /\ UNCHANGED <<calls, trainedW, cvars, xvars>>

\* _validate_with_cv, lines 392-401: test_with_loss on the fold's held-out
\* data (dataloader l), then the report's entries are read: a report without
\* the keys 'precision', 'recall', 'f1' (has_keys false) raises KeyError
FoldTest(l, has_keys) ==
    /\ pc = "cv_test"
    /\ IF l = "empty" \/ ~has_keys
       THEN /\ Raise(PredictionLoop(heap, model))
            /\ UNCHANGED fold
       ELSE /\ heap' = PredictionLoop(heap, model)
            /\ fold' = fold + 1
            /\ pc' = "cv_loop"
            /\ UNCHANGED <<outcome, trained_model>>
    /\ UNCHANGED <<cfg, dev, model, files, es, caller, loader, epoch, steps,
                   train_losses, folds, op, entryW, batchLog, stopped, ckptW,
                   loadArgs, loadPath>>
    /\ UNCHANGED <<calls, trainedW, cvars, xvars>>

\* _validate_with_cv, lines 403-417: the means of the folds' metrics
\* (statistics.mean raises StatisticsError for no fold), then
\* self.model = trained_model
ValidateEnd ==
    /\ pc = "cv_loop"
    /\ fold = folds
    /\ IF folds = 0
       THEN /\ Raise(heap)
            /\ UNCHANGED model
       ELSE /\ model' = Val(trained_model)
            /\ trained_model' = None
            /\ heap' = Collect(heap, {Val(trained_model)})
            /\ pc' = "idle"
            /\ outcome' = "returned"
    /\ UNCHANGED <<cfg, dev, files, es, caller, loader, epoch, steps,
                   train_losses, folds, fold, op, entryW, batchLog, stopped,
                   ckptW, loadArgs, loadPath>>
    /\ UNCHANGED <<calls, trainedW, cvars, xvars>>

Next ==
    \/ \E n \in 0..MaxBatches : TrainLoopStart(n)
    \/ \E w \in Weights : TrainBatch(w)
    \/ \E loss \in Losses : EpochEnd(loss)
    \/ TrainLoopFinish
    \/ \E kind \in {"test", "test_with_loss"}, l \in Loaders :
          Test(kind, l)
    \/ \E n \in NameArgs, p \in PathArgs : LoadModelCall(n, p)
    \/ \E f \in 0..MaxFolds : ValidateStart(f)
    \/ FoldBegin
    \/ \E l \in Loaders, has_keys \in BOOLEAN : FoldTest(l, has_keys)
    \/ ValidateEnd

Spec == Init /\ [][Next]_vars

\* ------------------------------------------------------------------------
\* Properties of BaseTrainer

\* _train_loop has left its epoch loop (line 228 or the break of line 225)
LoopLeft == pc = "after_loop"

\* _train_loop has returned to its caller
LoopReturned ==
    \/ pc = "idle" /\ op = "_train_loop" /\ outcome = "returned"
    \/ pc = "cv_test"

\* the monitor's stop flag is set
Flagged == es # None /\ Val(es).early_stop

\* C1: _train_loop runs the epochs in order 0..epochs-1 and leaves the epoch
\* loop before the configured count only through early stopping: the batches
\* processed are, in order, the batches of epoch 0, of epoch 1, ...; when the
\* loop is left without the monitor's flag (so also without early stopping or
\* without a dev set) exactly trainer_config.epochs epochs were trained; when
\* the monitor sets its flag after the dev evaluation of epoch e the loop is
\* left at once and no batch of an epoch > e is processed.
C1_EpochsInOrderUntilEarlyStop ==
    /\ \A k \in 1..Len(batchLog) :
          /\ batchLog[k].epoch = (k - 1) \div loader
          /\ batchLog[k].step = (k - 1) % loader
    /\ pc = "batch" => /\ epoch < cfg.epochs
                       /\ Len(batchLog) = epoch * loader + steps
                       /\ train_losses = epoch
    /\ Flagged => LoopLeft /\ stopped
    /\ (LoopLeft \/ LoopReturned) /\ ~stopped =>
          /\ train_losses = cfg.epochs
          /\ Len(batchLog) = cfg.epochs * loader
    /\ (LoopLeft \/ LoopReturned) /\ stopped =>
          /\ cfg.early_stopping /\ dev # None
          /\ epoch < cfg.epochs
          /\ train_losses = epoch + 1
          /\ Len(batchLog) = (epoch + 1) * loader
          /\ \A k \in 1..Len(batchLog) : batchLog[k].epoch <= epoch

\* the monitor stopped a loop of two batches per epoch after its second
\* epoch, one epoch before the configured count
C1_Witness ==
    /\ LoopLeft /\ Flagged
    /\ cfg.epochs = MaxEpochs
    /\ epoch = 1
    /\ loader = 2
    /\ Len(batchLog) = 4

\* C2: in _train_loop the model is in training mode at every training batch
\* of every epoch, also in the epochs after a dev-set evaluation; when
\* _train_loop returns the model is in evaluation mode, and after an early
\* stop its weights are the best-checkpointed ones, read from the checkpoint
\* file.
C2_TrainingModeAndReload ==
    /\ \A k \in 1..Len(batchLog) : batchLog[k].training
    /\ LoopReturned => ~heap[model].training
    /\ LoopReturned /\ stopped =>
          /\ ckptW # None
          /\ ModelPath(cfg.save_model_name, cfg.save_model_path)
                \in DOMAIN files
          /\ files[ModelPath(cfg.save_model_name, cfg.save_model_path)]
                = Val(ckptW)
          /\ W = Val(ckptW)

\* an early-stopped loop returned: its second epoch trained in training mode
\* after the dev evaluation of the first, the last optimizer step left other
\* weights than the checkpointed ones, and the model has the checkpointed
\* ones
C2_Witness ==
    /\ pc = "idle" /\ op = "_train_loop" /\ outcome = "returned"
    /\ stopped
    /\ dev = Some("batches")
    /\ \E k \in 1..Len(batchLog) :
          batchLog[k].epoch = 1 /\ batchLog[k].training
    /\ ~heap[model].training
    /\ trainedW # None /\ ckptW # None
    /\ Val(trainedW) # Val(ckptW)
    /\ W = Val(ckptW)

\* the path the specification gives for load_model's arguments
DocumentedPath(save_model_name, save_model_path) ==
    LET given(x) == x # None /\ Val(x) # ""
        dir == IF given(save_model_path) THEN Val(save_model_path)
               ELSE "trained_models"
        name == IF given(save_model_name) THEN Val(save_model_name)
                ELSE "checkpoint_best"
    IN  dir \o "/" \o name \o "_best.pt"

\* C3: load_model for a path that holds no file propagates no exception and
\* leaves the model's weights unchanged; the path it reads is
\* <save_model_path>/<save_model_name>_best.pt with the defaults
\* "trained_models" and "checkpoint_best", by default
\* trained_models/checkpoint_best_best.pt.
C3_MissingCheckpointIsAbsorbed ==
    pc = "idle" /\ op = "load_model" =>
       /\ loadPath = DocumentedPath(loadArgs[1], loadArgs[2])
       /\ loadArgs = <<None, None>> =>
             loadPath = "trained_models/checkpoint_best_best.pt"
       /\ loadPath \notin DOMAIN files =>
             /\ outcome = "returned"
             /\ W = entryW

\* load_model was called with its defaults while the only checkpoint file is
\* elsewhere: it returned and the weights are the ones before the call
C3_Witness ==
    /\ pc = "idle" /\ op = "load_model" /\ outcome = "returned"
    /\ loadArgs = <<None, None>>
    /\ files # <<>>
    /\ loadPath \notin DOMAIN files
    /\ W = entryW /\ W = MaxW

\* C4: test and test_with_loss never change the model's weights: for any
\* model state and any evaluation dataset the weights after the call, whether
\* it returned or raised, are the weights before it (no optimizer step).
C4_TestKeepsWeights ==
    pc = "idle" /\ op \in {"test", "test_with_loss"} =>
       /\ W = entryW
       /\ trainedW = None

\* test_with_loss returned for a model of non-zero weights
C4_Witness ==
    /\ pc = "idle" /\ op = "test_with_loss" /\ outcome = "returned"
    /\ entryW = MaxW
    /\ W = MaxW

\* _validate_with_cv is running
InCv ==
    \/ pc \in {"cv_loop", "cv_train", "cv_test"}
    \/ pc \in {"batch", "after_loop"} /\ caller = "cv"

\* C5: _validate_with_cv isolates its folds and restores the model: every
\* fold's training starts from the weights the model had when
\* _validate_with_cv was called, never from weights an earlier fold trained,
\* and when it returns the model has those pre-call weights.
C5_FoldsIsolatedAndModelRestored ==
    /\ InCv => /\ trained_model # None
               /\ heap[Val(trained_model)].w = entryW
    /\ pc = "cv_train" => W = entryW
    /\ pc = "idle" /\ op = "_validate_with_cv" /\ outcome = "returned" =>
          W = entryW

\* _validate_with_cv returned after two folds, the last of which trained the
\* fold's model to other weights than the pre-call ones
C5_Witness ==
    /\ pc = "idle" /\ op = "_validate_with_cv" /\ outcome = "returned"
    /\ folds = 2 /\ fold = 2
    /\ trainedW # None /\ Val(trainedW) # entryW
    /\ W = entryW

KnnError == "RuntimeError: The Knn trainer can either use the radius or the number of neighbours"

\* the arguments of a KNNConfig(...) call: k, radius (a float, here a whole
\* number), the two other fields, and the base fields passed on in **kwargs
KnnArgSpace ==
    [k : {None} \cup {Some(n) : n \in 0..MaxK},
     radius : {None} \cup {Some(r) : r \in 0..MaxRadius},
     weighted_knn_activation : BOOLEAN,
     caching_folder : {None, Some("cache")},
     epochs : {0, 1},
     optimizer : {None, Some("SGD")}]

\* super().__init__(**kwargs): the base configuration's checks of its fields
DenoisingConfigInit(a) ==
    IF a.epochs <= 0 THEN EpochsError
    ELSE IF a.optimizer = None THEN OptimizerError
    ELSE NoError

\* if self.k is not None and self.radius is not None
BothGiven_Truthy(a) ==
    /\ a.k # None /\ Val(a.k) # 0
    /\ a.radius # None /\ Val(a.radius) # 0

BothGiven(a) == a.k # None /\ a.radius # None

\* KNNConfig(**a): the object constructed, or the exception raised
KNNConfigInit(a) ==
    IF DenoisingConfigInit(a) # NoError
    THEN [obj |-> None, error |-> DenoisingConfigInit(a)]
    ELSE IF BothGiven(a)
    THEN [obj |-> None, error |-> KnnError]
    ELSE [obj |-> Some([k |-> a.k, radius |-> a.radius,
                        weighted_knn_activation |-> a.weighted_knn_activation,
                        caching_folder |-> a.caching_folder,
                        epochs |-> a.epochs, optimizer |-> a.optimizer]),
          error |-> NoError]

InitKnn ==
    /\ KnnAlone
    /\ kargs \in KnnArgSpace
    /\ kcfg = None
    /\ kerror = NoError
    /\ kpc = "start"

\* the program calls KNNConfig(k=..., radius=..., ...)
NewKNNConfig ==
    /\ kpc = "start"
    /\ kcfg' = KNNConfigInit(kargs).obj
    /\ kerror' = KNNConfigInit(kargs).error
    /\ kpc' = "done"
    /\ UNCHANGED kargs
    /\ UNCHANGED notKnn

NextKnn == NewKNNConfig

SpecKnn == InitKnn /\ [][NextKnn]_vars

\* C11: KNNConfig construction with both k and radius supplied always fails
\* with a configuration error, whatever their values (0 included); with
\* exactly one of them supplied and valid base fields it succeeds and the
\* object holds that value (and None for the other).
C11_KAndRadiusExclusive ==
    kpc = "done" =>
       /\ kargs.k # None /\ kargs.radius # None =>
             /\ kcfg = None
             /\ kerror # NoError
             /\ kargs.epochs > 0 /\ kargs.optimizer # None =>
                   kerror = KnnError
       /\ ((kargs.k = None) # (kargs.radius = None))
             /\ kargs.epochs > 0 /\ kargs.optimizer # None =>
             /\ kerror = NoError
             /\ kcfg # None
             /\ Val(kcfg).k = kargs.k
             /\ Val(kcfg).radius = kargs.radius

\* KNNConfig(k=0, radius=0.0) with valid base fields was refused
C11_Witness ==
    /\ kpc = "done"
    /\ kargs.k = Some(0) /\ kargs.radius = Some(0)
    /\ kargs.epochs > 0 /\ kargs.optimizer # None
    /\ kerror = KnnError
    /\ kcfg = None

(***************************************************************************)
(* input_labels_to_tensordataset (knodle/transformation/torch_input.py)    *)
(* and BaseTrainer._load_batch                                             *)
(***************************************************************************)
\* the content of a row of a tensor or of a label array: two values tell
\* rows apart
Cells == {0, 1}

\* a torch.Tensor and a numpy.ndarray of the given rows
Tensor(rows) == [kind |-> "Tensor", rows |-> rows]

NdArray(rows) == [kind |-> "ndarray", rows |-> rows]

\* sequences of n elements of S
SeqN(S, n) == [1..n -> S]

\* the tensors of a TensorDataset: one or more tensors of the same row count
TensorTuples ==
    UNION {SeqN({Tensor(r) : r \in SeqN(Cells, m)}, t) :
              m \in 0..MaxRows, t \in 1..MaxTensors}

LabelArrays == UNION {{NdArray(r) : r \in SeqN(Cells, m)} : m \in 0..MaxRows}

SizeMismatchError == "AssertionError: Size mismatch between tensors"

\* torch.from_numpy(a): a tensor of the array's rows
FromNumpy(a) == Tensor(a.rows)

\* TensorDataset(*tensors): all tensors must have the size of the first
TensorDataset(tensors) ==
    IF \A j \in 1..Len(tensors) :
          Len(tensors[j].rows) = Len(tensors[1].rows)
    THEN [obj |-> Some([tensors |-> tensors]), error |-> NoError]
    ELSE [obj |-> None, error |-> SizeMismatchError]

\* len(dataset) and dataset[i] (rows are counted from 1 here)
DatasetLen(ds) == Len(ds.tensors[1].rows)

GetItem(ds, i) == [j \in 1..Len(ds.tensors) |-> ds.tensors[j].rows[i]]

\* input_labels_to_tensordataset(model_input_x, labels)
InputLabelsToTensordataset_LabelsFirst(tensors, labels) ==
    TensorDataset(<<FromNumpy(labels)>> \o tensors)

InputLabelsToTensordataset(tensors, labels) ==
    TensorDataset(tensors \o <<FromNumpy(labels)>>)

\* the batch a dataloader of batch size 1 collates from item i
Collate(ds, i) == [j \in 1..Len(ds.tensors) |-> Tensor(<<GetItem(ds, i)[j]>>)]

\* BaseTrainer._load_batch(batch): all fields but the last are the inputs,
\* the last one is the labels
LoadBatch(batch) ==
    [input_batch |-> SubSeq(batch, 1, Len(batch) - 1),
     label_batch |-> batch[Len(batch)]]

InitPair ==
    /\ PairAlone
    /\ ptensors \in TensorTuples
    /\ plabels \in LabelArrays
    /\ pds = None
    /\ perror = NoError
    /\ pbatch = None
    /\ ppc = "start"

\* the program calls input_labels_to_tensordataset
Pair ==
    /\ ppc = "start"
    /\ pds' = InputLabelsToTensordataset(ptensors, plabels).obj
    /\ perror' = InputLabelsToTensordataset(ptensors, plabels).error
    /\ ppc' = IF InputLabelsToTensordataset(ptensors, plabels).error = NoError
              THEN "paired" ELSE "raised"
    /\ UNCHANGED <<ptensors, plabels, pbatch>>
    /\ UNCHANGED notPair

\* a dataloader over the paired dataset yields the batch of item i and
\* _load_batch splits it
ReadBatch(i) ==
    /\ ppc = "paired"
    /\ i \in 1..DatasetLen(Val(pds))
    /\ pbatch' = Some([item |-> i, batch |-> LoadBatch(Collate(Val(pds), i))])
    /\ UNCHANGED <<ptensors, plabels, pds, perror, ppc>>
    /\ UNCHANGED notPair

NextPair ==
    \/ Pair
    \/ \E i \in 1..MaxRows : ReadBatch(i)

SpecPair == InitPair /\ [][NextPair]_vars

\* the rows of the feature dataset and of the label array given
FeatureRows == Len(ptensors[1].rows)

LabelRows == Len(plabels.rows)

\* C12: for a feature dataset of m rows and m labels the paired dataset has
\* exactly m items, and item i is row i of every feature tensor, in the
\* tensors' order, followed by label i as its last element; _load_batch
\* takes the last element of a batch as the labels and the rest as inputs.
C12_PairsRowsWithLabels ==
    /\ ppc # "start" /\ FeatureRows = LabelRows =>
          /\ ppc = "paired" /\ perror = NoError /\ pds # None
          /\ DatasetLen(Val(pds)) = FeatureRows
          /\ \A i \in 1..FeatureRows :
                /\ Len(GetItem(Val(pds), i)) = Len(ptensors) + 1
                /\ \A j \in 1..Len(ptensors) :
                      GetItem(Val(pds), i)[j] = ptensors[j].rows[i]
                /\ GetItem(Val(pds), i)[Len(ptensors) + 1] = plabels.rows[i]
    /\ pbatch # None =>
          /\ Val(pbatch).batch.label_batch.rows
                = <<plabels.rows[Val(pbatch).item]>>
          /\ Len(Val(pbatch).batch.input_batch) = Len(ptensors)
          /\ \A j \in 1..Len(ptensors) :
                Val(pbatch).batch.input_batch[j].rows
                   = <<ptensors[j].rows[Val(pbatch).item]>>

\* two feature tensors of two rows were paired with two labels that differ
\* from the features' rows, and the batch of the second item was read
C12_Witness ==
    /\ ppc = "paired"
    /\ Len(ptensors) = 2 /\ FeatureRows = 2 /\ LabelRows = 2
    /\ ptensors[1].rows # ptensors[2].rows
    /\ plabels.rows # ptensors[2].rows
    /\ plabels.rows[1] # plabels.rows[2]
    /\ pbatch # None /\ Val(pbatch).item = 2

(***************************************************************************)
(* SimpleDsModelTrainer (knodle/trainer/baseline/baseline.py)              *)
(***************************************************************************)
\* the arguments of train: inputs (only its length matters to train's
\* checks), rule_matches and epochs
TrainArgs ==
    [inputs : UNION {{Tensor(r) : r \in SeqN({0}, m)} : m \in 0..MaxRows},
     rule_matches : LabelArrays,
     epochs : -1..MaxTrainEpochs]

\* the assertion of lines 34-37 and its message, which names both lengths
LengthsDiffer_OnlyLonger(a) == Len(a.inputs.rows) > Len(a.rule_matches.rows)

LengthsDiffer(a) == Len(a.inputs.rows) # Len(a.rule_matches.rows)

LengthError(a) ==
    [type |-> "AssertionError",
     msg |-> "Length of inputs and rule matches have to be the same but they are",
     inputs |-> Len(a.inputs.rows),
     rule_matches |-> Len(a.rule_matches.rows)]

\* the assertion of line 39
EpochsNotPositive(a) == ~(a.epochs > 0)

TrainEpochsError ==
    [type |-> "AssertionError",
     msg |-> "Epochs has to be set with a positive number"]

\* get_majority_vote_probabilities(rule_matches, output_classes): the labels
\* of the instances, one per row of rule_matches
MajorityVoteLabels(rule_matches, output_classes) ==
    [i \in 1..Len(rule_matches.rows) |->
        [votes |-> rule_matches.rows[i], classes |-> output_classes]]

\* denoise_rule_matches(rule_matches): the value returned
DenoiseRuleMatches_Cleared(rule_matches) ==
    NdArray([i \in 1..Len(rule_matches.rows) |-> 0])

DenoiseRuleMatches(rule_matches) == rule_matches

InitBaseline ==
    /\ BaselineAlone
    /\ bmodel \in [w : Weights, training : BOOLEAN]
    /\ bcfg = [output_classes |-> 2]
    /\ bargs = <<>>
    /\ bop = "none"
    /\ bpc = "start"
    /\ berror = None
    /\ blabels = None
    /\ bepoch = 0
    /\ blog = <<>>
    /\ bret = None
    /\ bentry = None

\* train(inputs, rule_matches, epochs), lines 34-48: the two assertions, then
\* self.model.train() and the labels
TrainCall(a) ==
    /\ bpc = "start"
    /\ bop' = "train"
    /\ bargs' = a
    /\ bentry' = Some([model |-> bmodel, trainer_config |-> bcfg])
    /\ IF LengthsDiffer(a)
       THEN /\ bpc' = "raised"
            /\ berror' = Some(LengthError(a))
            /\ UNCHANGED <<bmodel, blabels, blog>>
       ELSE IF EpochsNotPositive(a)
       THEN /\ bpc' = "raised"
            /\ berror' = Some(TrainEpochsError)
            /\ UNCHANGED <<bmodel, blabels, blog>>
       ELSE /\ bpc' = "epochs"
            /\ bmodel' = [bmodel EXCEPT !.training = TRUE]
            /\ blabels' = Some(MajorityVoteLabels(a.rule_matches,
                                                  bcfg.output_classes))
            /\ blog' = <<"train_mode", "labels">>
            /\ UNCHANGED berror
    /\ UNCHANGED <<bcfg, bepoch, bret>>
    /\ UNCHANGED notBaseline

\* train, lines 50-57: one epoch: zero_grad, forward pass, loss, backward
\* pass, optimizer step (the weights become some w)
TrainEpoch(w) ==
    /\ bpc = "epochs"
    /\ bepoch < bargs.epochs
    /\ bmodel' = [bmodel EXCEPT !.w = w]
    /\ blog' = Append(blog, "step")
    /\ bepoch' = bepoch + 1
    /\ UNCHANGED <<bcfg, bargs, bop, bpc, berror, blabels, bret, bentry>>
    /\ UNCHANGED notBaseline

\* train, line 59: the loop is over and train returns None
TrainReturn ==
    /\ bpc = "epochs"
    /\ bepoch = bargs.epochs
    /\ bpc' = "returned"
    /\ UNCHANGED <<bmodel, bcfg, bargs, bop, berror, blabels, bepoch, blog,
                   bret, bentry>>
    /\ UNCHANGED notBaseline

\* denoise_rule_matches(rule_matches), lines 61-67
DenoiseCall(rule_matches) ==
    /\ bpc = "start"
    /\ bop' = "denoise_rule_matches"
    /\ bargs' = [rule_matches |-> rule_matches]
    /\ bentry' = Some([model |-> bmodel, trainer_config |-> bcfg])
    /\ bret' = Some(DenoiseRuleMatches(rule_matches))
    /\ bpc' = "returned"
    /\ UNCHANGED <<bmodel, bcfg, berror, blabels, bepoch, blog>>
    /\ UNCHANGED notBaseline

NextBaseline ==
    \/ \E a \in TrainArgs : TrainCall(a)
    \/ \E w \in Weights : TrainEpoch(w)
    \/ TrainReturn
    \/ \E rule_matches \in LabelArrays : DenoiseCall(rule_matches)

SpecBaseline == InitBaseline /\ [][NextBaseline]_vars

\* C13: train fails fast on bad input: for len(inputs) # len(rule_matches)
\* it raises an error naming both lengths, for epochs <= 0 it raises an
\* error, and in both cases nothing was done before: the model was not put
\* in training mode, no label derived, no optimizer step made, the model is
\* as it was.
C13_TrainFailsFast ==
    bop = "train" =>
       /\ Len(bargs.inputs.rows) # Len(bargs.rule_matches.rows) =>
             /\ bpc = "raised"
             /\ berror # None
             /\ {"inputs", "rule_matches"} \subseteq DOMAIN Val(berror)
             /\ Val(berror).inputs = Len(bargs.inputs.rows)
             /\ Val(berror).rule_matches = Len(bargs.rule_matches.rows)
       /\ bargs.epochs <= 0 => bpc = "raised" /\ berror # None
       /\ bpc = "raised" =>
             /\ blog = <<>>
             /\ blabels = None
             /\ bmodel = Val(bentry).model
       /\ bpc # "raised" =>
             /\ Len(bargs.inputs.rows) = Len(bargs.rule_matches.rows)
             /\ bargs.epochs > 0

\* train was called on a model in evaluation mode with one input row, two
\* rows of rule matches and two epochs, and raised the error naming 1 and 2
C13_Witness ==
    /\ bop = "train" /\ bpc = "raised"
    /\ Len(bargs.inputs.rows) = 1 /\ Len(bargs.rule_matches.rows) = 2
    /\ bargs.epochs = 2
    /\ Val(berror).inputs = 1 /\ Val(berror).rule_matches = 2
    /\ ~bmodel.training

\* C14: denoise_rule_matches returns its rule_matches argument unchanged,
\* for every input, and changes no trainer state (model, configuration).
C14_DenoiseIsIdentity ==
    bop = "denoise_rule_matches" =>
       /\ bpc = "returned"
       /\ bret = Some(bargs.rule_matches)
       /\ bmodel = Val(bentry).model
       /\ bcfg = Val(bentry).trainer_config

\* denoise_rule_matches returned an array of the two rows 1, 0
C14_Witness ==
    /\ bop = "denoise_rule_matches" /\ bpc = "returned"
    /\ bargs.rule_matches.rows = <<1, 0>>
    /\ Val(bret).rows = <<1, 0>>
    /\ bmodel = Val(bentry).model

(***************************************************************************)
(* The statements of BaseTrainer._train_loop's batches, for a trainer      *)
(* without dev set, and Trainer.initialise_optimizer                       *)
(***************************************************************************)
\* what trainer_config.optimizer can be: an optimizer object, an optimizer
\* class that accepts (params, lr), or a class with another signature
OptimizerKinds == {"instance", "class", "class_other_signature"}

\* trainer_config.optimizer(params=..., lr=...) raises TypeError: an object
\* is not callable, a class of another signature rejects the keywords
ConstructorTypeError(optimizer) == optimizer # "class"

\* initialise_optimizer: the value returned and whether an exception leaves
InitialiseOptimizer_Uncaught(optimizer) ==
    IF ConstructorTypeError(optimizer)
    THEN [ret |-> None, raised |-> TRUE]
    ELSE [ret |-> Some("optimizer object"), raised |-> FALSE]

InitialiseOptimizer(optimizer) ==
    IF ConstructorTypeError(optimizer)
    THEN [ret |-> None, raised |-> FALSE]
    ELSE [ret |-> Some("optimizer object"), raised |-> FALSE]

\* self.trainer_config.optimizer.zero_grad() and .step() are calls of bound
\* methods: on a class they raise TypeError (no self)
OptimizerUsable(optimizer) == optimizer = "instance"

\* isinstance(self.trainer_config.grad_clipping, (int, float))
Clips(grad_clipping) == grad_clipping # None

\* the operations of a batch, lines 175-192, in their order
BatchOps_ClipAfterStep(grad_clipping) ==
    <<"zero_grad", "forward", "loss", "backward", "step">>
       \o (IF Clips(grad_clipping) THEN <<"clip">> ELSE <<>>)

BatchOps(grad_clipping) ==
    <<"zero_grad", "forward", "loss", "backward">>
       \o (IF Clips(grad_clipping) THEN <<"clip">> ELSE <<>>)
       \o <<"step">>

\* int(round(n / 10)): Python rounds a half to the even neighbour
ProgressInterval(n) ==
    IF n % 10 < 5 THEN n \div 10
    ELSE IF n % 10 > 5 THEN n \div 10 + 1
    ELSE IF (n \div 10) % 2 = 0 THEN n \div 10 ELSE n \div 10 + 1

\* lines 199-204: the progress log of a batch.  steps % 0 raises
\* ZeroDivisionError, which the except clause answers with continue
ProgressLog(verbose, s, n) ==
    IF ~verbose THEN "off"
    ELSE IF ProgressInterval(n) = 0 THEN "absorbed"
    ELSE IF s % ProgressInterval(n) = 0 THEN "logged"
    ELSE "silent"

\* line 206: avg_loss = epoch_loss / len(feature_label_dataloader)
AverageRaises(n) == n = 0

InitLoop ==
    /\ LoopAlone
    /\ lcfg \in [optimizer : OptimizerKinds,
                 grad_clipping : {None, Some(5)},
                 epochs : 1..MaxLoopEpochs]
    /\ llen \in 0..MaxLoopBatches
    /\ lverbose \in BOOLEAN
    /\ lmodel \in [w : Weights, training : {FALSE}]
    /\ lpc = "start"
    /\ lepoch = 0
    /\ lsteps = 0
    /\ llog = <<>>
    /\ lerror = None
    /\ linit = "not called"
    /\ lret = None
    /\ lentry = None

\* the program calls initialise_optimizer() before it trains
InitialiseOptimizerCall ==
    /\ lpc = "start"
    /\ linit = "not called"
    /\ linit' = IF InitialiseOptimizer(lcfg.optimizer).raised
                THEN "raised" ELSE "returned"
    /\ lret' = InitialiseOptimizer(lcfg.optimizer).ret
    /\ lentry' = Some([model |-> lmodel, trainer_config |-> lcfg])
    /\ UNCHANGED <<lcfg, llen, lverbose, lmodel, lpc, lepoch, lsteps, llog,
                   lerror>>
    /\ UNCHANGED notLoop

\* _train_loop, lines 143-165: self.model.train() and the first epoch begins
LoopStart ==
    /\ lpc = "start"
    /\ linit # "raised"
    /\ lmodel' = [lmodel EXCEPT !.training = TRUE]
    /\ lpc' = "batch"
    /\ UNCHANGED <<lcfg, llen, lverbose, lepoch, lsteps, llog, lerror, linit,
                   lret, lentry>>
    /\ UNCHANGED notLoop

\* _train_loop, lines 167-204: one batch.  With an optimizer that cannot be
\* used its first operation, zero_grad, raises; otherwise the operations run
\* in order (the step leaves some weights w) and the progress log follows.
LoopBatch(w) ==
    /\ lpc = "batch"
    /\ lsteps < llen
    /\ lsteps' = lsteps + 1
    /\ IF OptimizerUsable(lcfg.optimizer)
       THEN /\ llog' = Append(llog,
                          [epoch |-> lepoch, step |-> lsteps + 1,
                           ops |-> BatchOps(lcfg.grad_clipping),
                           progress |-> ProgressLog(lverbose, lsteps + 1,
                                                    llen)])
            /\ lmodel' = [lmodel EXCEPT !.w = w]
            /\ UNCHANGED <<lpc, lerror>>
       ELSE /\ llog' = Append(llog,
                          [epoch |-> lepoch, step |-> lsteps + 1,
                           ops |-> <<>>, progress |-> "off"])
            /\ lpc' = "raised"
            /\ lerror' = Some([type |-> "TypeError", at |-> "zero_grad"])
            /\ UNCHANGED lmodel
    /\ UNCHANGED <<lcfg, llen, lverbose, lepoch, linit, lret, lentry>>
    /\ UNCHANGED notLoop

\* _train_loop, lines 206-248 without dev set and early stopping: the
\* averages of the epoch, self.model.train(), and after the last epoch
\* self.model.eval() and the return
LoopEpochEnd ==
    /\ lpc = "batch"
    /\ lsteps = llen
    /\ IF AverageRaises(llen)
       THEN /\ lpc' = "raised"
            /\ lerror' = Some([type |-> "ZeroDivisionError",
                               at |-> "avg_loss"])
            /\ UNCHANGED <<lepoch, lsteps, lmodel>>
       ELSE /\ lepoch' = lepoch + 1
            /\ lsteps' = 0
            /\ UNCHANGED lerror
            /\ IF lepoch + 1 < lcfg.epochs
               THEN /\ lpc' = "batch"
                    /\ lmodel' = [lmodel EXCEPT !.training = TRUE]
               ELSE /\ lpc' = "returned"
                    /\ lmodel' = [lmodel EXCEPT !.training = FALSE]
    /\ UNCHANGED <<lcfg, llen, lverbose, llog, linit, lret, lentry>>
    /\ UNCHANGED notLoop

NextLoop ==
    \/ InitialiseOptimizerCall
    \/ LoopStart
    \/ \E w \in Weights : LoopBatch(w)
    \/ LoopEpochEnd

SpecLoop == InitLoop /\ [][NextLoop]_vars

\* the operation o was done in the batch logged as b
Did(b, o) == \E i \in 1..Len(b.ops) : b.ops[i] = o

\* the batches of epoch e that got their optimizer step
Stepped(e) == {k \in 1..Len(llog) : llog[k].epoch = e /\ Did(llog[k], "step")}

\* C15: a training dataloader that yields zero batches does not make
\* _train_loop raise (the zero denominator is absorbed and the loop goes
\* on), and for a dataloader of 1 to 5 batches the division error of the
\* progress log is absorbed and every batch of an epoch gets its optimizer
\* step.  (For a trainer whose optimizer is an optimizer object.)
C15_ZeroDenominatorAbsorbed ==
    lcfg.optimizer = "instance" /\ llen \in 0..5 =>
       /\ lpc # "raised"
       /\ lerror = None
       /\ lpc = "returned" =>
             \A e \in 0..(lcfg.epochs - 1) : Cardinality(Stepped(e)) = llen

\* What the code does for C15's dataloaders: the progress log of 1 to 5
\* batches absorbs its division error and every batch gets its step, while
\* the epoch of a dataloader without batches ends in the ZeroDivisionError
\* of line 206.
C15_OnlyProgressLogAbsorbed ==
    lcfg.optimizer = "instance" =>
       /\ llen \in 1..5 =>
             /\ lpc # "raised"
             /\ \A k \in 1..Len(llog) :
                   /\ Did(llog[k], "step")
                   /\ lverbose => llog[k].progress = "absorbed"
             /\ lpc = "returned" =>
                   \A e \in 0..(lcfg.epochs - 1) :
                      Cardinality(Stepped(e)) = llen
       /\ llen = 0 /\ lpc \in {"returned", "raised"} =>
             /\ lpc = "raised"
             /\ Val(lerror).type = "ZeroDivisionError"
             /\ lepoch = 0

\* initialise_optimizer was called and the constructor call failed on the
\* signature
InitialiseFailed == linit # "not called" /\ lcfg.optimizer # "class"

\* C16 as stated: initialise_optimizer never propagates a signature-mismatch
\* failure of the optimizer constructor: it returns no optimizer and leaves
\* trainer_config.optimizer and the model unchanged; a training loop started
\* afterwards fails only at the point an optimizer step is required (read
\* for a dataloader that has batches).
C16_FailsAtOptimizerStep ==
    InitialiseFailed =>
       /\ linit = "returned" /\ lret = None
       /\ lcfg = Val(lentry).trainer_config
       /\ lpc = "start" => lmodel = Val(lentry).model
       /\ lpc = "raised" /\ llen > 0 =>
             /\ Val(lerror).at = "step"
             /\ Did(llog[Len(llog)], "backward")

\* C16 as the code has it: initialise_optimizer never propagates the
\* TypeError of the constructor call: it returns None and leaves
\* trainer_config.optimizer and the model unchanged.  A training loop
\* started afterwards uses trainer_config.optimizer as it is: an optimizer
\* class fails at the loop's first use of the optimizer, the zero_grad call
\* that opens the first batch, before any forward pass or optimizer step
\* (with a dataloader without batches the loop fails at the average of the
\* first epoch instead); an optimizer object trains normally.
C16_FailsAtFirstOptimizerUse ==
    InitialiseFailed =>
       /\ linit = "returned" /\ lret = None
       /\ lcfg = Val(lentry).trainer_config
       /\ lpc = "start" => lmodel = Val(lentry).model
       /\ lpc = "raised" /\ llen > 0 =>
             /\ lcfg.optimizer = "class_other_signature"
             /\ Val(lerror).at = "zero_grad"
             /\ lepoch = 0
             /\ Len(llog) = 1
             /\ llog[1].ops = <<>>
             /\ lmodel.w = Val(lentry).model.w
       /\ lpc = "raised" /\ llen = 0 => Val(lerror).at = "avg_loss"
       /\ lcfg.optimizer = "class_other_signature" /\ llen > 0 =>
             lpc # "returned"

\* initialise_optimizer returned None for an optimizer class of another
\* signature, and the loop started afterwards raised at the zero_grad of its
\* first batch
C16_Witness ==
    /\ InitialiseFailed
    /\ linit = "returned" /\ lret = None
    /\ lcfg.optimizer = "class_other_signature"
    /\ lpc = "raised"
    /\ Val(lerror).at = "zero_grad"
    /\ llen = 2

\* the place of operation o among the operations of the batch logged as b
Pos(b, o) == CHOOSE i \in 1..Len(b.ops) : b.ops[i] = o

\* C20: each batch of _train_loop is processed in the order zero the
\* gradients, forward pass, loss, backward pass, gradient clipping (only
\* when grad_clipping is a number), optimizer step; a batch gets exactly one
\* optimizer step, clipping never comes after the step, and in an epoch the
\* optimizer steps are as many as the batches of the dataloader.
C20_BatchOperationsInOrder ==
    /\ \A k \in 1..Len(llog) :
          llog[k].ops # <<>> =>
             /\ \A o \in {"zero_grad", "forward", "loss", "backward", "step"} :
                   Cardinality({i \in 1..Len(llog[k].ops) :
                                   llog[k].ops[i] = o}) = 1
             /\ Pos(llog[k], "zero_grad") < Pos(llog[k], "forward")
             /\ Pos(llog[k], "forward") < Pos(llog[k], "loss")
             /\ Pos(llog[k], "loss") < Pos(llog[k], "backward")
             /\ Pos(llog[k], "backward") < Pos(llog[k], "step")
             /\ Did(llog[k], "clip") <=> lcfg.grad_clipping # None
             /\ Did(llog[k], "clip") =>
                   /\ Pos(llog[k], "backward") < Pos(llog[k], "clip")
                   /\ Pos(llog[k], "clip") < Pos(llog[k], "step")
             /\ Len(llog[k].ops) = IF lcfg.grad_clipping # None THEN 6 ELSE 5
    /\ \A e \in 0..(lepoch - 1) : Cardinality(Stepped(e)) = llen
    /\ lpc = "returned" => lepoch = lcfg.epochs

\* two epochs of two batches each were trained with gradient clipping
C20_Witness ==
    /\ lpc = "returned"
    /\ lcfg.grad_clipping = Some(5)
    /\ lcfg.epochs = 2 /\ llen = 2
    /\ Len(llog) = 4
    /\ Did(llog[4], "clip") /\ Did(llog[4], "step")

(***************************************************************************)
(* train_cleanlab_bert (examples/trainer/cleanlab/cleanlab_training_bert)  *)
(***************************************************************************)
\* num_experiments
NumExperiments == 30

\* product(*parameter_values): the grid in the order of itertools.product,
\* the last list varying fastest; only cv_n_folds and p have several values
CvNFolds == <<3, 5, 8>>

PValues == <<"0.1", "0.3", "0.5", "0.7", "0.9">>

Combinations ==
    [c \in 1..(Len(CvNFolds) * Len(PValues)) |->
        [cv_n_folds |-> CvNFolds[((c - 1) \div Len(PValues)) + 1],
         p |-> PValues[((c - 1) % Len(PValues)) + 1],
         iterations |-> 50,
         prune_method |-> "prune_by_noise_rate",
         psx_calculation_method |-> "signatures",
         psx_epochs |-> 20,
         psx_lr |-> "0.8"]]

\* the names bound in train_cleanlab_bert when the result record is built:
\* its parameters, its locals and the module's globals that matter here
NamesInScope ==
    {"path_to_data", "output_file", "num_experiments", "parameters",
     "parameter_values", "results", "run_id", "params", "cv_n_folds", "p",
     "iterations", "prune_method", "psx_calculation_method", "psx_epochs",
     "psx_lr", "exp_results_acc", "exp_results_prec", "exp_results_recall",
     "exp_results_f1", "exp", "trainer", "clf_report",
     "custom_cleanlab_config", "statistics", "sem"}

\* the names the dict display of lines 124-139 reads for the
\* hyperparameters, in the order it evaluates them
ResultNames ==
    <<"lr", "cv_n_folds", "p", "prune_method", "epochs", "batch_size",
      "psx_calculation_method">>

\* the first name the dict display reads that is not bound, if any
FirstUnbound ==
    IF \A i \in 1..Len(ResultNames) : ResultNames[i] \in NamesInScope
    THEN None
    ELSE Some(ResultNames[CHOOSE i \in 1..Len(ResultNames) :
                /\ ResultNames[i] \notin NamesInScope
                /\ \A j \in 1..(i - 1) : ResultNames[j] \in NamesInScope])

\* the clf_report of experiment e of combination c, and a metric of it
Report(c, e) == [run |-> c, exp |-> e]

Metric(name, reports) ==
    [i \in 1..Len(reports) |-> [metric |-> name, of |-> reports[i]]]

\* the statistics of a metric's values
Stats(name, reports) ==
    [values |-> Metric(name, reports),
     mean |-> [mean_of |-> Metric(name, reports)],
     std |-> [stdev_of |-> Metric(name, reports)],
     sem |-> [sem_of |-> Metric(name, reports)]]

\* the record of lines 124-139 for combination c and its reports
ResultRecord(c, reports) ==
    [cv_n_folds |-> c.cv_n_folds, p |-> c.p,
     prune_method |-> c.prune_method,
     psx_calculation_method |-> c.psx_calculation_method,
     accuracy |-> Stats("accuracy", reports),
     precision |-> Stats("precision", reports),
     recall |-> Stats("recall", reports),
     f1 |-> Stats("f1-score", reports)]

InitSweep ==
    /\ SweepAlone
    /\ sargs \in [path_to_data : {"data", "data/mimic"},
                  output_file : {"results.json", "out.json"}]
    /\ srun = 0
    /\ sexp = 0
    /\ sreports = <<>>
    /\ sresults = <<>>
    /\ sfiles = <<>>
    /\ serror = None
    /\ spc = "experiments"

\* lines 72-122: one experiment: models, configuration and trainer are
\* built, the trainer trains and tests, the report is appended
Experiment ==
    /\ spc = "experiments"
    /\ sexp < NumExperiments
    /\ sreports' = Append(sreports, Report(srun, sexp))
    /\ sexp' = sexp + 1
    /\ UNCHANGED <<sargs, srun, sresults, sfiles, serror, spc>>
    /\ UNCHANGED notSweep

\* lines 124-159: after the experiments of a combination its record is
\* built (reading an unbound name raises NameError) and appended; after the
\* last combination the records are written as a JSON array
CombinationEnd ==
    /\ spc = "experiments"
    /\ sexp = NumExperiments
    /\ IF FirstUnbound # None
       THEN /\ spc' = "raised"
            /\ serror' = Some([type |-> "NameError",
                               name |-> Val(FirstUnbound)])
            /\ UNCHANGED <<srun, sexp, sreports, sresults, sfiles>>
       ELSE /\ sresults' = Append(sresults,
                              ResultRecord(Combinations[srun + 1], sreports))
            /\ sreports' = <<>>
            /\ sexp' = 0
            /\ srun' = srun + 1
            /\ UNCHANGED serror
            /\ IF srun + 1 < Len(Combinations)
               THEN UNCHANGED <<spc, sfiles>>
               ELSE /\ spc' = "done"
                    /\ sfiles' =
                          [f \in {PathJoin(sargs.path_to_data,
                                           sargs.output_file)} |->
                              Append(sresults,
                                 ResultRecord(Combinations[srun + 1],
                                              sreports))]
    /\ UNCHANGED sargs
    /\ UNCHANGED notSweep

NextSweep ==
    \/ Experiment
    \/ CombinationEnd

SpecSweep == InitSweep /\ [][NextSweep]_vars

\* C17: train_cleanlab_bert runs, for each of the 15 combinations of its
\* grid, exactly 30 experiments and appends one record with the
\* hyperparameters, the 30 per-run values and mean, standard deviation and
\* standard error of the four metrics; on completion it writes a JSON array
\* of exactly one record per combination to <path_to_data>/<output_file>.
C17_SweepWritesOneRecordPerCombination ==
    /\ spc # "raised"
    /\ Len(sresults) = srun
    /\ \A r \in 1..Len(sresults) :
          /\ sresults[r].cv_n_folds = Combinations[r].cv_n_folds
          /\ sresults[r].p = Combinations[r].p
          /\ Len(sresults[r].accuracy.values) = NumExperiments
    /\ spc = "done" =>
          /\ srun = 15
          /\ DOMAIN sfiles = {sargs.path_to_data \o "/" \o sargs.output_file}
          /\ \A f \in DOMAIN sfiles : sfiles[f] = sresults

(***************************************************************************)
(* Rules, T and Z of the preprocessing pipeline (prepare_mimic_cxr.py,     *)
(* lines 210-259).  Strings are sequences of characters.                   *)
(***************************************************************************)
\* the characters of phrases and report texts
RuleChars == {"a", "b"}

\* the phrases a phrase file can hold
Phrases == {<<"a">>, <<"b">>, <<"a", "b">>}

\* classes: the pipeline has 14, the model two
RuleClasses == <<"no_finding", "pneumonia">>

\* sequences of at most n elements of S
SeqUpTo(S, n) == UNION {SeqN(S, k) : k \in 0..n}

\* rule in data[ind]: the phrase is a substring of the text
Substring(phrase, text) ==
    \E i \in 0..(Len(text) - Len(phrase)) :
       SubSeq(text, i + 1, i + Len(phrase)) = phrase

\* lines 218-222: the rules data frame: the phrases of all classes chained
\* in class order, with rule_id = position (from 0) and the class's id
RECURSIVE Chain(_, _)
Chain(lines, c) ==
    IF c = 0 THEN <<>>
    ELSE Chain(lines, c - 1)
            \o [i \in 1..Len(lines[c]) |->
                  [rule |-> lines[c][i], label_id |-> c - 1]]

Rules(lines) ==
    [i \in 1..Len(Chain(lines, Len(RuleClasses))) |->
        [rule |-> Chain(lines, Len(RuleClasses))[i].rule,
         rule_id |-> i - 1,
         label_id |-> Chain(lines, Len(RuleClasses))[i].label_id]]

\* line 225: rule2rule_id = dict(zip(rules["rule"], rules["rule_id"])): a
\* phrase that occurs again replaces its entry, so it keeps its last rule_id
Rule2RuleId(rules) ==
    [ph \in {rules[i].rule : i \in 1..Len(rules)} |->
        rules[CHOOSE i \in 1..Len(rules) :
                 /\ rules[i].rule = ph
                 /\ \A j \in 1..Len(rules) : rules[j].rule = ph => j <= i
             ].rule_id]

\* line 226 and get_mapping_rules_labels_t: one row per rule_id, a 1 in the
\* column of the rule's class (rows and columns counted from 0)
GetMappingRulesLabelsT(rules) ==
    [r \in 0..(Len(rules) - 1) |->
        [c \in 0..(Len(RuleClasses) - 1) |->
            IF rules[r + 1].label_id = c THEN 1 ELSE 0]]

IndexError == "IndexError: index is out of bounds for axis 1"

\* get_rule_matches_z(data, num_rules) with the global rule2rule_id: a
\* matching phrase whose rule_id is no column raises IndexError
GetRuleMatchesZ(data, num_rules, rule2rule_id) ==
    IF \E ind \in 1..Len(data), ph \in DOMAIN rule2rule_id :
          Substring(ph, data[ind]) /\ rule2rule_id[ph] >= num_rules
    THEN [z |-> None, error |-> IndexError]
    ELSE [z |-> Some([ind \in 0..(Len(data) - 1) |->
                       [col \in 0..(num_rules - 1) |->
                           IF \E ph \in DOMAIN rule2rule_id :
                                 /\ rule2rule_id[ph] = col
                                 /\ Substring(ph, data[ind + 1])
                           THEN 1 ELSE 0]]),
          error |-> NoError]

\* line 259: the number of columns asked for
NumRules(rules) == Cardinality(DOMAIN Rule2RuleId(rules)) + 1

InitRules ==
    /\ RulesAlone
    /\ rlines \in SeqN(SeqUpTo(Phrases, MaxPhrases), Len(RuleClasses))
    /\ rdata \in SeqUpTo(SeqUpTo(RuleChars, MaxTextLen), MaxReports)
    /\ rT = None
    /\ rZ = None
    /\ rerror = NoError
    /\ rpc = "start"

\* lines 210-259: the rules, T and Z are built from the phrase lists and
\* the report texts
BuildMatrices ==
    /\ rpc = "start"
    /\ rT' = Some(GetMappingRulesLabelsT(Rules(rlines)))
    /\ LET res == GetRuleMatchesZ(rdata, NumRules(Rules(rlines)),
                                  Rule2RuleId(Rules(rlines)))
       IN  /\ rZ' = res.z
           /\ rerror' = res.error
           /\ rpc' = IF res.error = NoError THEN "built" ELSE "raised"
    /\ UNCHANGED <<rlines, rdata>>
    /\ UNCHANGED notRules

NextRules == BuildMatrices

SpecRules == InitRules /\ [][NextRules]_vars

\* the rows of a matrix and the columns of a matrix that has rows
Rows(mat) == Cardinality(DOMAIN mat)

Columns(mat) == Cardinality(DOMAIN mat[0])

\* C18: Z has one row per instance and (rule count + 1) columns, rule count
\* being the number of rows of T; Z[i, r] = 1 exactly when the phrase of
\* rule r is a substring of the text of instance i, and the extra last
\* column is all zero; for every phrase list, also one in which a phrase
\* occurs under two classes.
C18_ZMatchesEveryRule ==
    rpc # "start" =>
       /\ rpc = "built"
       /\ Rows(Val(rZ)) = Len(rdata)
       /\ \A i \in 0..(Len(rdata) - 1) :
             /\ Columns(Val(rZ)) = Rows(Val(rT)) + 1
             /\ \A r \in 0..(Rows(Val(rT)) - 1) :
                   Val(rZ)[i][r] = 1
                      <=> Substring(Rules(rlines)[r + 1].rule, rdata[i + 1])
             /\ Val(rZ)[i][Rows(Val(rT))] = 0

\* no phrase occurs twice in the phrase lists
NoPhraseTwice ==
    \A i, j \in 1..Len(Rules(rlines)) :
       Rules(rlines)[i].rule = Rules(rlines)[j].rule => i = j

\* What the code does for C18's inputs: the statement holds for phrase lists
\* without a repeated phrase; with repetitions Z has fewer columns than
\* rules + 1 (one per distinct phrase, plus one).
C18_ZMatchesDistinctPhrases ==
    rpc # "start" =>
       /\ NoPhraseTwice =>
             /\ rpc = "built"
             /\ Rows(Val(rZ)) = Len(rdata)
             /\ \A i \in 0..(Len(rdata) - 1) :
                   /\ Columns(Val(rZ)) = Rows(Val(rT)) + 1
                   /\ \A r \in 0..(Rows(Val(rT)) - 1) :
                         Val(rZ)[i][r] = 1
                            <=> Substring(Rules(rlines)[r + 1].rule,
                                          rdata[i + 1])
                   /\ Val(rZ)[i][Rows(Val(rT))] = 0
       /\ rpc = "built" /\ ~NoPhraseTwice /\ rdata # <<>> =>
             Columns(Val(rZ)) < Rows(Val(rT)) + 1

(***************************************************************************)
(* Report parsing of the preprocessing pipeline (prepare_mimic_cxr.py,     *)
(* lines 112-144), for one study.  Strings are sequences of characters.    *)
(***************************************************************************)
\* "FINDINGS:" and "IMPRESSION:"
FindingsMarker == <<"F", "I", "N", "D", "I", "N", "G", "S", ":">>

ImpressionMarker == <<"I", "M", "P", "R", "E", "S", "S", "I", "O", "N", ":">>

\* what a raw report is made of: the markers, a character of prose, a full
\* stop, a comma, a newline
Pieces == {FindingsMarker, ImpressionMarker, <<"x">>, <<".">>, <<",">>, <<"\n">>}

RECURSIVE Concat(_)
Concat(pieces) ==
    IF pieces = <<>> THEN <<>> ELSE Head(pieces) \o Concat(Tail(pieces))

ReportTexts == {Concat(ps) : ps \in SeqUpTo(Pieces, MaxPieces)}

\* str.replace(old, "") for a single character old
Remove(text, old) == SelectSeq(text, LAMBDA ch : ch # old)

\* str.find(sub): the lowest index (from 0) at which sub starts, -1 if none
Occurrences(text, sub) ==
    {i \in 0..(Len(text) - Len(sub)) : SubSeq(text, i + 1, i + Len(sub)) = sub}

Find(text, sub) ==
    IF Occurrences(text, sub) = {} THEN -1
    ELSE CHOOSE i \in Occurrences(text, sub) :
            \A j \in Occurrences(text, sub) : i <= j

\* a slice bound as Python reads it: a negative bound counts from the end,
\* and bounds are clipped to the text
SliceBound(i, n) ==
    IF i < 0 THEN (IF i + n < 0 THEN 0 ELSE i + n)
    ELSE IF i > n THEN n ELSE i

\* text[lo:hi]
Slice(text, lo, hi) ==
    SubSeq(text, SliceBound(lo, Len(text)) + 1, SliceBound(hi, Len(text)))

\* lines 116-122: the row written for a report
ParseReport(raw) ==
    LET text  == Remove(Remove(raw, "\n"), ",")
        start == Find(text, FindingsMarker)
        end   == Find(text, ImpressionMarker)
    IN  [findings |-> Slice(text, start, end),
         impressions |-> Slice(text, end, Len(text))]

\* NaN of pandas
NaN == None

\* lines 127-129: pd.read_csv(..., na_values='.') reads an empty field and
\* the field "." as NaN
ReadCsvField(field) ==
    IF field = <<>> \/ field = <<".">> THEN NaN ELSE Some(field)

\* lines 141-144: fillna of impressions with findings, then dropna: the
\* rows left for the study in reports_processed
ReportsProcessed(row) ==
    LET findings == ReadCsvField(row.findings)
        impressions == ReadCsvField(row.impressions)
        filled == IF impressions = NaN THEN findings ELSE impressions
    IN  IF filled = NaN THEN <<>> ELSE <<[impressions |-> Val(filled)]>>

InitReport ==
    /\ ReportAlone
    /\ dtext \in ReportTexts
    /\ drow = None
    /\ dreports = <<>>
    /\ dpc = "start"

\* lines 113-124: the report is read, parsed and written as a csv row
WriteRow ==
    /\ dpc = "start"
    /\ drow' = Some(ParseReport(dtext))
    /\ dpc' = "written"
    /\ UNCHANGED <<dtext, dreports>>
    /\ UNCHANGED notReport

\* lines 127-144: the csv file is read back, filled and pruned
ProcessReports ==
    /\ dpc = "written"
    /\ dreports' = ReportsProcessed(Val(drow))
    /\ dpc' = "processed"
    /\ UNCHANGED <<dtext, drow>>
    /\ UNCHANGED notReport

NextReport == WriteRow \/ ProcessReports

SpecReport == InitReport /\ [][NextReport]_vars

\* the report text without newlines and commas, and its markers
Stripped == Remove(Remove(dtext, "\n"), ",")

HasFindings == Occurrences(Stripped, FindingsMarker) # {}

HasImpression == Occurrences(Stripped, ImpressionMarker) # {}

\* the text from the first sub on
From(text, sub) == SubSeq(text, Find(text, sub) + 1, Len(text))

\* the text from the first "FINDINGS:" up to the first "IMPRESSION:"
Between(text) ==
    SubSeq(text, Find(text, FindingsMarker) + 1, Find(text, ImpressionMarker))

\* C19: the findings section is the text between "FINDINGS:" and
\* "IMPRESSION:" and the impression section everything from "IMPRESSION:"
\* on; a report without "IMPRESSION:" gets its findings text as impression,
\* and a study with neither is dropped.
C19_ReportSections ==
    dpc = "processed" =>
       /\ HasFindings /\ HasImpression =>
             Val(drow).findings = Between(Stripped)
       /\ HasImpression =>
             /\ Val(drow).impressions = From(Stripped, ImpressionMarker)
             /\ dreports = <<[impressions |-> From(Stripped, ImpressionMarker)]>>
       /\ ~HasImpression /\ HasFindings =>
             /\ Len(dreports) = 1
             /\ dreports[1].impressions \in
                   {Val(drow).findings, From(Stripped, FindingsMarker)}
       /\ ~HasImpression /\ ~HasFindings => dreports = <<>>

\* What the code does for C19's inputs: with both markers the sections are
\* as stated; without "IMPRESSION:" find gives -1, which the slices read as
\* the last character: the impression read back is that character unless it
\* is a full stop, and only then the findings (without that full stop) take
\* its place or the study is dropped.
C19_FallbackOnlyAfterFullStop ==
    dpc = "processed" =>
       /\ HasFindings /\ HasImpression =>
             Val(drow).findings = Between(Stripped)
       /\ HasImpression =>
             dreports = <<[impressions |-> From(Stripped, ImpressionMarker)]>>
       /\ ~HasImpression /\ Stripped # <<>> =>
             /\ Val(drow).impressions = <<Stripped[Len(Stripped)]>>
             /\ Stripped[Len(Stripped)] # "." =>
                   dreports = <<[impressions |-> <<Stripped[Len(Stripped)]>>]>>
             /\ Stripped[Len(Stripped)] = "." /\ HasFindings =>
                   dreports = <<[impressions |->
                      SubSeq(From(Stripped, FindingsMarker), 1,
                             Len(From(Stripped, FindingsMarker)) - 1)]>>
             /\ Stripped[Len(Stripped)] = "." /\ ~HasFindings =>
                   dreports = <<>>
       /\ Stripped = <<>> => dreports = <<>>

(***************************************************************************)
(* BaseTrainer._load_train_params (knodle/trainer/trainer.py, 101-111).    *)
(* A dataset or matrix is named by the number of the call that supplied    *)
(* it: 0 for the constructor, n for the n-th _load_train_params call.      *)
(***************************************************************************)
\* _load_train_params(model_input_x, rule_matches_z, dev_model_input_x,
\* dev_gold_labels_y): the trainer's attributes afterwards
LoadTrainParams_Either(self, a) ==
    LET s1 == IF a.model_input_x # None \/ a.rule_matches_z # None
              THEN [self EXCEPT !.model_input_x = a.model_input_x,
                                !.rule_matches_z = a.rule_matches_z]
              ELSE self
    IN  IF a.dev_model_input_x # None \/ a.dev_gold_labels_y # None
        THEN [s1 EXCEPT !.dev_model_input_x = a.dev_model_input_x,
                        !.dev_gold_labels_y = a.dev_gold_labels_y]
        ELSE s1

LoadTrainParams(self, a) ==
    LET s1 == IF a.model_input_x # None /\ a.rule_matches_z # None
              THEN [self EXCEPT !.model_input_x = a.model_input_x,
                                !.rule_matches_z = a.rule_matches_z]
              ELSE self
    IN  IF a.dev_model_input_x # None /\ a.dev_gold_labels_y # None
        THEN [s1 EXCEPT !.dev_model_input_x = a.dev_model_input_x,
                        !.dev_gold_labels_y = a.dev_gold_labels_y]
        ELSE s1

\* the arguments of call n: each omitted (None) or supplied
ParamArgs(n) ==
    [model_input_x : {None, Some(n)}, rule_matches_z : {None, Some(n)},
     dev_model_input_x : {None, Some(n)}, dev_gold_labels_y : {None, Some(n)}]

\* Trainer.__init__ (lines 55-65): the constructor stores its arguments; the
\* dev arguments are optional
InitParams ==
    /\ ParamsAlone
    /\ \E d \in {None, Some(0)}, g \in {None, Some(0)} :
          aself = [model |-> Some(0), mapping_rules_labels_t |-> Some(0),
                   trainer_config |-> Some(0),
                   model_input_x |-> Some(0), rule_matches_z |-> Some(0),
                   dev_model_input_x |-> d, dev_gold_labels_y |-> g]
    /\ aargs = None
    /\ aentry = aself
    /\ acalls = 0

LoadTrainParamsCall(a) ==
    /\ acalls >= 0
    /\ acalls < MaxParamCalls
    /\ aargs' = Some(a)
    /\ aentry' = aself
    /\ aself' = LoadTrainParams(aself, a)
    /\ acalls' = acalls + 1
    /\ UNCHANGED notParams

NextParams == \E a \in ParamArgs(acalls + 1) : LoadTrainParamsCall(a)

SpecParams == InitParams /\ [][NextParams]_vars

\* C22: _load_train_params replaces the training pair only when both members
\* are supplied and the dev pair only when both are; with one member of a
\* pair supplied neither member of that pair changes; model, T and
\* configuration never change; the features and the rule matches the trainer
\* holds come from the same call.
C22_PairsReplacedTogether ==
    acalls >= 1 =>
       /\ IF Val(aargs).model_input_x # None /\ Val(aargs).rule_matches_z # None
          THEN /\ aself.model_input_x = Val(aargs).model_input_x
               /\ aself.rule_matches_z = Val(aargs).rule_matches_z
          ELSE /\ aself.model_input_x = aentry.model_input_x
               /\ aself.rule_matches_z = aentry.rule_matches_z
       /\ IF /\ Val(aargs).dev_model_input_x # None
             /\ Val(aargs).dev_gold_labels_y # None
          THEN /\ aself.dev_model_input_x = Val(aargs).dev_model_input_x
               /\ aself.dev_gold_labels_y = Val(aargs).dev_gold_labels_y
          ELSE /\ aself.dev_model_input_x = aentry.dev_model_input_x
               /\ aself.dev_gold_labels_y = aentry.dev_gold_labels_y
       /\ aself.model = aentry.model
       /\ aself.mapping_rules_labels_t = aentry.mapping_rules_labels_t
       /\ aself.trainer_config = aentry.trainer_config
       /\ aself.model_input_x = aself.rule_matches_z

\* the second call supplied features without rule matches and a full dev
\* pair after the first had replaced the training pair: the training pair is
\* still the first call's, the dev pair the second's
C22_Witness ==
    /\ acalls = 2
    /\ Val(aargs).model_input_x = Some(2)
    /\ Val(aargs).rule_matches_z = None
    /\ Val(aargs).dev_model_input_x = Some(2)
    /\ Val(aargs).dev_gold_labels_y = Some(2)
    /\ aself.model_input_x = Some(1)
    /\ aself.rule_matches_z = Some(1)
    /\ aself.dev_model_input_x = Some(2)
    /\ aself.dev_gold_labels_y = Some(2)

(***************************************************************************)
(* Label derivation of the preprocessing pipeline (prepare_mimic_cxr.py,   *)
(* lines 154-173), for one row of the weak-label export.                   *)
(***************************************************************************)
\* labels_chexpert.columns after line 156: the two id columns, the 14 label
\* columns of the export, and the column 'label' (positions from 0)
ChexpertColumns ==
    <<"subject_id", "study_id", "Atelectasis", "Cardiomegaly",
      "Consolidation", "Edema", "Enlarged Cardiomediastinum", "Fracture",
      "Lung Lesion", "Lung Opacity", "No Finding", "Pleural Effusion",
      "Pleural Other", "Pneumonia", "Pneumothorax", "Support Devices",
      "label">>

\* labels_list[c]: the name of the column at position c
ColumnName(c) == ChexpertColumns[c + 1]

\* columns[2:16]: the positions of the label columns
LabelColumns == 2..15

\* the values an id column takes in the model: 1 equals 1.0, 2 does not
IdValues == {1, 2}

\* the rows of the export: ids, and the set of label columns holding 1.0
\* (the other label cells hold 0.0, -1.0 or nothing)
ChexpertRows ==
    [subject_id : IdValues, study_id : IdValues,
     flagged : {f \in SUBSET LabelColumns : Cardinality(f) <= MaxFlagged}]

\* line 162: label_is1 = labels_chexpert.iloc[i,:] == 1.0 compares every cell
\* of the row, the id cells and the cell of column 'label' (0) included: the
\* positions at which it is True
LabelIs1(row) ==
    (IF row.subject_id = 1 THEN {0} ELSE {})
       \cup (IF row.study_id = 1 THEN {1} ELSE {})
       \cup row.flagged

\* lines 163-168: the names the cell of column 'label' may get
DerivedNames(row) ==
    IF Cardinality(LabelIs1(row)) = 1
    THEN {ColumnName(c) : c \in LabelIs1(row)}
    ELSE IF Cardinality(LabelIs1(row)) > 1
    THEN {ColumnName(c) : c \in LabelIs1(row)}
    ELSE {"No Finding"}

\* line 170: labels = {id: cat for (cat, id) in enumerate(columns[2:16])}, and
\* labels.get(name): None for a name that is no label column
LabelsGet(name) ==
    IF \E c \in LabelColumns : ColumnName(c) = name
    THEN Some((CHOOSE c \in LabelColumns : ColumnName(c) = name) - 2)
    ELSE None

InitLabels ==
    /\ LabelsAlone
    /\ yrow \in ChexpertRows
    /\ ylabel = 0
    /\ ypc = "start"

\* lines 160-168: the row's label cell gets a column name; random.choice
\* picks any of several
DeriveLabel(name) ==
    /\ ypc = "start"
    /\ name \in DerivedNames(yrow)
    /\ ylabel' = name
    /\ ypc' = "named"
    /\ UNCHANGED yrow
    /\ UNCHANGED notLabels

\* lines 172-173: the name is replaced by its integer id
MapLabel ==
    /\ ypc = "named"
    /\ ylabel' = LabelsGet(ylabel)
    /\ ypc' = "mapped"
    /\ UNCHANGED yrow
    /\ UNCHANGED notLabels

NextLabels ==
    \/ \E name \in {ColumnName(c) : c \in 0..16} : DeriveLabel(name)
    \/ MapLabel

SpecLabels == InitLabels /\ [][NextLabels]_vars

\* the ids of the classes the statement allows for a row
AllowedIds(row) ==
    IF row.flagged = {}
    THEN {(CHOOSE c \in LabelColumns : ColumnName(c) = "No Finding") - 2}
    ELSE {c - 2 : c \in row.flagged}

\* C23: every study gets exactly one class among the 14 label columns: the
\* flagged column when exactly one is flagged, one of the flagged columns
\* when several are, "No Finding" when none is; the id columns' values never
\* influence the result; the final integer label is in 0..13.
C23_LabelAmongFlagged ==
    ypc = "mapped" =>
       /\ ylabel # None
       /\ Val(ylabel) \in 0..13
       /\ Val(ylabel) \in AllowedIds(yrow)

\* What the code does for C23's inputs: the statement holds for rows whose
\* ids differ from 1; an id equal to 1 counts as a flagged column.
C23_LabelAmongFlaggedUnlessIdIsOne ==
    ypc = "mapped" /\ yrow.subject_id # 1 /\ yrow.study_id # 1 =>
       /\ ylabel # None
       /\ Val(ylabel) \in 0..13
       /\ Val(ylabel) \in AllowedIds(yrow)

(***************************************************************************)
(* Fine-tuning split of the preprocessing pipeline (prepare_mimic_cxr.py,  *)
(* lines 315-323).  An instance is named by its row index in input_list.   *)
(***************************************************************************)
\* the most instances used for fine-tuning, and the size of the range the
\* training indices are sampled from: 750 in the source (lines 316 and 320),
\* scaled down here
FinetuneCap == 6

\* line 316: m = min(750, n)
M(n) == IF n < FinetuneCap THEN n ELSE FinetuneCap

\* line 319: n_train = round(m*0.8); 0.8*m is never half-way between two
\* integers, so round gives the nearest one
NTrain(m) == (8 * m + 5) \div 10

\* line 320: random.sample(range(750), n_train) may give any n_train
\* distinct elements of the range
SampleRange(m) == 0..(FinetuneCap - 1)

Samples(m) == {ix \in SUBSET SampleRange(m) : Cardinality(ix) = NTrain(m)}

SplitIndexError == "IndexError: index is out of bounds for axis 0"

\* lines 322-323: input_list[:m,:][indices_train,:] and
\* np.delete(input_list[:m,:], indices_train, axis = 0); an index that is no
\* row of input_list[:m,:] raises IndexError
SplitRows(m, indices) ==
    IF \E i \in indices : i >= m
    THEN [train |-> None, validate |-> None, error |-> SplitIndexError]
    ELSE [train |-> Some(indices),
          validate |-> Some((0..(m - 1)) \ indices),
          error |-> NoError]

InitSplit ==
    /\ SplitAlone
    /\ fn \in 1..MaxN
    /\ findices = None
    /\ ftrain = None
    /\ fvalidate = None
    /\ ferror = NoError
    /\ fpc = "start"

\* lines 316-320
SampleIndices(indices) ==
    /\ fpc = "start"
    /\ indices \in Samples(M(fn))
    /\ findices' = Some(indices)
    /\ fpc' = "sampled"
    /\ UNCHANGED <<fn, ftrain, fvalidate, ferror>>
    /\ UNCHANGED notSplit

\* lines 322-323
SplitInput ==
    /\ fpc = "sampled"
    /\ LET res == SplitRows(M(fn), Val(findices))
       IN  /\ ftrain' = res.train
           /\ fvalidate' = res.validate
           /\ ferror' = res.error
           /\ fpc' = IF res.error = NoError THEN "split" ELSE "raised"
    /\ UNCHANGED <<fn, findices>>
    /\ UNCHANGED notSplit

NextSplit ==
    \/ \E indices \in SUBSET (0..(FinetuneCap - 1)) : SampleIndices(indices)
    \/ SplitInput

SpecSplit == InitSplit /\ [][NextSplit]_vars

\* the first min(cap, n) instances
FirstM == 0..((IF fn < FinetuneCap THEN fn ELSE FinetuneCap) - 1)

\* C24: for every n >= 1 the fine-tuning split is a partition of the first
\* m = min(750, n) instances: round(0.8*m) training instances, the other
\* m - round(0.8*m) in the validation set, the sets disjoint, their union
\* exactly those m instances, every sampled training index below m.
C24_SplitIsPartition ==
    /\ fpc \in {"sampled", "split", "raised"} =>
          \A i \in Val(findices) : i \in FirstM
    /\ fpc \in {"split", "raised"} =>
          /\ fpc = "split"
          /\ Cardinality(Val(ftrain)) = (8 * Cardinality(FirstM) + 5) \div 10
          /\ Cardinality(Val(fvalidate))
                = Cardinality(FirstM) - (8 * Cardinality(FirstM) + 5) \div 10
          /\ Val(ftrain) \cap Val(fvalidate) = {}
          /\ Val(ftrain) \cup Val(fvalidate) = FirstM

\* What the code does for C24's inputs: the statement holds when n is at
\* least the cap; for a smaller n the indices are still sampled from the
\* whole range of the cap, and the split is a partition only if they all
\* happen to be below n, and raises IndexError otherwise.
C24_PartitionFromCapOn ==
    /\ fn >= FinetuneCap /\ fpc \in {"sampled", "split", "raised"} =>
          \A i \in Val(findices) : i \in FirstM
    /\ fpc \in {"split", "raised"} =>
          /\ fn >= FinetuneCap => fpc = "split"
          /\ fpc = "raised" <=> \E i \in Val(findices) : i \notin FirstM
          /\ fpc = "split" =>
                /\ Cardinality(Val(ftrain))
                      = (8 * Cardinality(FirstM) + 5) \div 10
                /\ Cardinality(Val(fvalidate))
                      = Cardinality(FirstM)
                           - (8 * Cardinality(FirstM) + 5) \div 10
                /\ Val(ftrain) \cap Val(fvalidate) = {}
                /\ Val(ftrain) \cup Val(fvalidate) = FirstM

(***************************************************************************)
(* train_model of the preprocessing pipeline (prepare_mimic_cxr.py, lines  *)
(* 347-408), for non-empty training and validation sets.                   *)
(***************************************************************************)
\* line 394: `phase == 'val' and epoch_acc > best_acc`
Improved_OrEqual(epoch_acc, best_acc) == epoch_acc >= best_acc

Improved(epoch_acc, best_acc) == epoch_acc > best_acc

\* lines 349-350: best_model_wts = copy.deepcopy(model.state_dict()) and
\* best_acc = 0.0
InitTune ==
    /\ TuneAlone
    /\ mnum \in 0..MaxTuneEpochs
    /\ mwts \in 0..MaxTuneW
    /\ mbest = [wts |-> mwts, acc |-> 0]
    /\ mepoch = 0
    /\ mphase = "train"
    /\ mhist = <<>>
    /\ mentryW = mwts
    /\ mpc = "epochs"

\* lines 358-387, phase 'train': the optimizer steps leave the weights w
TrainPhase(w) ==
    /\ mpc = "epochs"
    /\ mepoch < mnum
    /\ mphase = "train"
    /\ mwts' = w
    /\ mphase' = "val"
    /\ UNCHANGED <<mnum, mbest, mepoch, mhist, mentryW, mpc>>
    /\ UNCHANGED notTune

\* lines 358-396, phase 'val': no optimizer step; the accuracy is computed
\* and a better one makes the weights the snapshot
ValPhase(epoch_acc) ==
    /\ mpc = "epochs"
    /\ mepoch < mnum
    /\ mphase = "val"
    /\ mbest' = IF Improved(epoch_acc, mbest.acc)
                THEN [wts |-> mwts, acc |-> epoch_acc]
                ELSE mbest
    /\ mhist' = Append(mhist, [wts |-> mwts, acc |-> epoch_acc])
    /\ mepoch' = mepoch + 1
    /\ mphase' = "train"
    /\ UNCHANGED <<mnum, mwts, mentryW, mpc>>
    /\ UNCHANGED notTune

\* lines 400-405: model.load_state_dict(best_model_wts); return model
TuneReturn ==
    /\ mpc = "epochs"
    /\ mepoch = mnum
    /\ mwts' = mbest.wts
    /\ mpc' = "returned"
    /\ UNCHANGED <<mnum, mbest, mepoch, mphase, mhist, mentryW>>
    /\ UNCHANGED notTune

NextTune ==
    \/ \E w \in 0..MaxTuneW : TrainPhase(w)
    \/ \E a \in 0..MaxAcc : ValPhase(a)
    \/ TuneReturn

SpecTune == InitTune /\ [][NextTune]_vars

\* the highest validation accuracy of the epochs run (0 for none)
HighestAcc ==
    IF mhist = <<>> THEN 0
    ELSE CHOOSE a \in {mhist[e].acc : e \in DOMAIN mhist} :
            \A e \in DOMAIN mhist : mhist[e].acc <= a

\* the first epoch (from 1) that reached the highest validation accuracy
FirstBestEpoch ==
    CHOOSE e \in DOMAIN mhist :
       /\ mhist[e].acc = HighestAcc
       /\ \A d \in DOMAIN mhist : mhist[d].acc = HighestAcc => e <= d

\* C25: train_model returns the model with the weights snapshot taken at the
\* end of the validation phase of the first epoch that reached the highest
\* validation accuracy of all epochs; when no epoch reaches an accuracy above
\* 0 it returns the weights the model had before training.
C25_ReturnsFirstBestSnapshot ==
    mpc = "returned" =>
       /\ Len(mhist) = mnum
       /\ mwts = IF HighestAcc > 0 THEN mhist[FirstBestEpoch].wts
                 ELSE mentryW

\* three epochs: the second reached the highest accuracy, the third equalled
\* it with other weights, and the model returned has the second's
C25_Witness ==
    /\ mpc = "returned"
    /\ mnum = 3
    /\ mhist[1].acc = 1 /\ mhist[2].acc = 2 /\ mhist[3].acc = 2
    /\ mhist[2].wts # mhist[3].wts
    /\ mhist[2].wts # mhist[1].wts
    /\ mwts = mhist[2].wts

====
